---- MODULE Spec2Model ----
(***************************************************************************)
(* RAKSHAK AI risk pipeline: the streaming RiskFusionAgent and its HTTP    *)
(* bridge (risk_fusion_agent.py, agent_views.py RiskFusionView), and the   *)
(* DecisionAgent rule engine with its Redis cooldown keys and its HTTP     *)
(* bridge (decision_agent.py, agent_views.py DecisionView).                *)
(*                                                                         *)
(* Numbers.  Scores are Python floats in the source; here a score is an    *)
(* integer number of thousandths (850 is 0.85).  Wall-clock time is an     *)
(* integer number of seconds.  The quality factor exp(-0.01 * age) is      *)
(* tabulated in thousandths for the ages a fusion can see (0..10 s).       *)
(***************************************************************************)
EXTENDS Integers, Sequences, FiniteSets, TLC

(***************************************************************************)
(* Bounds of the model                                                     *)
(***************************************************************************)
\* last second of wall-clock time explored by the fusion specification
MaxTime == 11
\* total number of bus signals delivered to the RiskFusionAgent
MaxSignals == 6
\* total number of incident ids (uuid4 values) allocated
MaxIncidents == 2

Trucks == {"TRK1", "TRK2"}
NoTruck == "none"

\* risk_fusion_agent.py:47-49 input_channels, in the order of channel_mapping
Channels == {"behaviour", "twin", "route"}

\* anomaly_score / deviation_score / route_risk_score values carried by the
\* incoming payloads, in thousandths; -500 and 1500 lie outside [0,1]
ScoreSamples == {-500, 600, 1500}
\* the score the upstream agents put on the bus (they clip to [0,1])
StreamScores == {900}

\* seconds that pass between two handlers: the staleness window exactly, or
\* one second more
Gaps == {10, 11}

\* hours of the day at which a fusion reads datetime.now().hour: night, rush
\* and day bands of _get_temporal_score
Hours == {2, 8, 13}

VARIABLES
    now,            \* time.time(), in seconds
    signal_buffer,  \* RiskFusionAgent._signal_buffer: truck -> channel -> entry
    bn_model,       \* RiskFusionAgent.bn_model is set (Bayesian network loaded)
    nextSig,        \* number of bus signals delivered so far
    nextIncident,   \* number of incident ids allocated so far
    lastRisk,       \* the RiskOutput produced last (record) or NoRisk
    riskPublished,  \* incident ids of the RiskOutputs published on risk.output
    event,          \* what the last handler did
    storeUp,        \* the Redis server answers
    cooldown,       \* alert_cooldown:{truck}:{rule} -> expiry time, 0 when absent
    riskTopic,      \* risk.output messages not yet read by the DecisionAgent
    decisionAgent,  \* agent_views._decision_agent: "unset", "redis" or "patched"
    pc,             \* evaluator -> position in _evaluate_rules
    cur,            \* evaluator -> the RiskInput and rule being evaluated
    decisionOut,    \* the DecisionOutput published / returned last, and by whom
    fired,          \* <<truck, rule>> -> timestamps of the last two fired decisions
    actionLog,      \* <<incident id, action>> for every action executed
    alerts,         \* the Alert rows the decision bridge created
    failures,       \* incident ids whose rule evaluation raised
    trip_status     \* Trip.status of the trip the bridge requests name

fusionVars == <<now, signal_buffer, bn_model, nextSig, nextIncident,
                lastRisk, riskPublished, event>>

decisionVars == <<storeUp, cooldown, riskTopic, decisionAgent, pc, cur, decisionOut,
                  fired, actionLog, alerts, failures, trip_status>>

VARIABLES
    behaviour_model, \* BehaviourAgent.model is set (Isolation Forest loaded)
    perception,      \* the perception payload the BehaviourAgent handled last
    behaviourOut     \* the BehaviourOutput it built from that payload

behaviourVars == <<behaviour_model, perception, behaviourOut>>

VARIABLES
    clock_hour,      \* datetime.now().hour, the same for every handler of a run
    twin_states,     \* DigitalTwinAgent._twin_states: truck -> cached baseline
    twinOut,         \* the twin output built last
    routeOut,        \* the route output built last
    agentAlerts      \* the Alert rows the behaviour, twin and route bridges created

pipelineVars == <<clock_hour, twin_states, twinOut, routeOut, agentAlerts>>

VARIABLES
    explainRunning,  \* the ExplainabilityAgent has subscribed to its two channels
    risk_cache,      \* ExplainabilityAgent._risk_cache, in insertion order
    riskSent,        \* number of RiskOutputs published on rakshak.risk.output
    decisionSent,    \* number of DecisionOutputs published on rakshak.decision.output
    explainOut       \* the ExplanationOutput published last

explainVars == <<explainRunning, risk_cache, riskSent, decisionSent, explainOut>>

VARIABLES
    incident_list,   \* the Redis list incidents:{truck} of one truck, head first
    logPc,           \* evaluator -> position in _log_incident
    nextLogged       \* number of incidents pushed so far

incidentVars == <<incident_list, logPc, nextLogged>>

VARIABLES
    llm_provider,    \* ExplainabilityAgent.llm_provider (LLM_PROVIDER)
    openai_key,      \* ExplainabilityAgent.openai_key is not empty
    llm_call         \* what the last _generate_explanation did with the summarizer

summarizerVars == <<llm_provider, openai_key, llm_call>>

VARIABLES
    httpRejected,    \* status of the error response a bridge view returned last
    ai_explanation,  \* ai_explanation of the trip's latest Alert row
    framesPublished  \* PerceptionOutputs the bridge put on rakshak.perception.output

httpVars == <<httpRejected, ai_explanation, framesPublished>>

VARIABLES
    running,          \* DecisionAgent.running
    loopPc,           \* DecisionAgent.run: "looping", "exited" or "raised"
    conn_cut,         \* stop closed the connection of the command run is awaiting
    inflight_at_stop  \* incident id of the message run was handling at stop, or 0

loopVars == <<running, loopPc, conn_cut, inflight_at_stop>>

VARIABLES
    injected,         \* number of simulate and vision-event requests served
    injected_points   \* sum of risk_score of the Alert rows they created, in
                      \* tenths of a point

tripVars == <<injected, injected_points>>

VARIABLES
    twin_topic,       \* the messages published on rakshak.twin.output, oldest first
    route_handled,    \* how many of them RouteAgent.run has taken from its subscription
    route_published,  \* what it published on rakshak.route.output, oldest first
    route_status      \* the value it stored under route_status:{truck}

routeVars == <<twin_topic, route_handled, route_published, route_status>>

VARIABLES
    decisions_received,  \* incident ids of the DecisionOutputs ExplainabilityAgent.run
                         \* received, oldest first
    explain_tasks,       \* the _handle_decision tasks awaiting their summarizer
    explain_published    \* incident ids of the ExplanationOutputs published,
                         \* oldest first

orderVars == <<decisions_received, explain_tasks, explain_published>>

VARIABLES
    twin_store,       \* what the store holds under twin_baseline:{truck}
    store_gets,       \* number of redis.get calls _get_baseline made
    baseline_log      \* what _get_baseline returned, call after call

baselineVars == <<twin_store, store_gets, baseline_log>>

lateVars == <<tripVars, routeVars, orderVars, baselineVars>>

moreVars == <<summarizerVars, httpVars, loopVars, lateVars>>

auxVars == <<explainVars, incidentVars, moreVars>>

\* the state of the agents around the fusion and decision agents
extVars == <<behaviourVars, pipelineVars, auxVars>>

vars == <<fusionVars, decisionVars, extVars>>

(***************************************************************************)
(* RiskFusionAgent: pure helpers                                           *)
(***************************************************************************)
\* risk_fusion_agent.py:58
signal_staleness_s == 10

\* exp(-0.01 * age) * 1000, rounded, for age = 0..10
QTable == <<1000, 990, 980, 970, 961, 951, 942, 932, 923, 914, 905>>

\* risk_fusion_agent.py:95-97
QualityFactor(age) == QTable[age + 1]

\* risk_fusion_agent.py:54-55, in hundredths
fallback_weights == [behaviour |-> 35, twin |-> 30, route |-> 25, temporal |-> 10]

InRange(h, lo, hi) == lo <= h /\ h < hi

\* risk_fusion_agent.py:99-106
GetTemporalScore(hour) ==
    IF InRange(hour, 22, 24) \/ InRange(hour, 0, 6) THEN 800
    ELSE IF InRange(hour, 6, 9) \/ InRange(hour, 18, 22) THEN 400
    ELSE 100

\* mutant: the lower bounds of the levels are exclusive
ClassifyRiskLevel_Exclusive(score) ==
    IF score > 850 THEN "CRITICAL"
    ELSE IF score > 650 THEN "HIGH"
    ELSE IF score > 450 THEN "MEDIUM"
    ELSE "LOW"

\* risk_fusion_agent.py:108-116
ClassifyRiskLevel(score) ==
    IF score >= 850 THEN "CRITICAL"
    ELSE IF score >= 650 THEN "HIGH"
    ELSE IF score >= 450 THEN "MEDIUM"
    ELSE "LOW"

Min(a, b) == IF a < b THEN a ELSE b

\* data_ages.get(key, 0.0)
AgeOf(data_ages, key) == IF key \in DOMAIN data_ages THEN data_ages[key] ELSE 0

RECURSIVE ProductOfQuality(_, _)
ProductOfQuality(data_ages, keys) ==
    IF keys = {} THEN 1000
    ELSE LET k == CHOOSE x \in keys : TRUE
         IN (ProductOfQuality(data_ages, keys \ {k}) * QualityFactor(data_ages[k])) \div 1000

\* risk_fusion_agent.py:140-178: scores is [behaviour, twin, route] taken from
\* the payloads without clipping, temporal is _get_temporal_score()
WeightedFusion(scores, data_ages, temporal) ==
    LET adj == [k \in DOMAIN fallback_weights |->
                    fallback_weights[k] * QualityFactor(AgeOf(data_ages, k))]
        total == adj.behaviour + adj.twin + adj.route + adj.temporal
        composite == IF total > 0
                     THEN (adj.behaviour * scores.behaviour + adj.twin * scores.twin
                           + adj.route * scores.route + adj.temporal * temporal) \div total
                     ELSE 0
    IN [score |-> Min(composite, 1000),
        confidence |-> ProductOfQuality(data_ages, DOMAIN data_ages),
        method |-> "weighted_fallback"]

\* TheftRisk distributions a loaded network may answer with, in thousandths:
\* <<low, medium, high, critical>>
BayesSamples == {<<1000, 0, 0, 0>>, <<100, 200, 300, 400>>, <<0, 0, 0, 1000>>}
BayesFailed == <<>>

Max4(p) == LET m12 == IF p[1] > p[2] THEN p[1] ELSE p[2]
               m34 == IF p[3] > p[4] THEN p[3] ELSE p[4]
           IN IF m12 > m34 THEN m12 ELSE m34

\* risk_fusion_agent.py:180-247: answer is the inference result, or BayesFailed
\* when bn_inference.query raises
BayesianFusion(scores, temporal, answer) ==
    IF answer = BayesFailed
    THEN WeightedFusion(scores, [behaviour |-> 0, twin |-> 0, route |-> 0], temporal)
    ELSE [score |-> (answer[2] * 330 + answer[3] * 670 + answer[4] * 1000) \div 1000,
          confidence |-> Max4(answer),
          method |-> "bayesian"]

\* risk_fusion_agent.py:135-136 (the score-driven tag of _get_triggered_rules)
CriticalBreach(score) == score >= 850

(***************************************************************************)
(* RiskFusionAgent: state                                                  *)
(***************************************************************************)
NoRisk == [truck |-> NoTruck]
EmptyBuffer == <<>>

HasAllChannels(buf) == \A ch \in Channels : ch \in DOMAIN buf

\* mutant: a signal of exactly signal_staleness_s seconds counts as stale
AllFresh_Strict(buf, current_time) ==
    \A ch \in DOMAIN buf : ~(current_time - buf[ch].received_at >= signal_staleness_s)

\* risk_fusion_agent.py:304-309
AllFresh(buf, current_time) ==
    \A ch \in DOMAIN buf : ~(current_time - buf[ch].received_at > signal_staleness_s)

\* mutant: storing a signal stamps every entry of the truck with the new time
StoreSignal_Refresh(buf, ch, score, t) ==
    [c \in (DOMAIN buf) \cup {ch} |->
        IF c = ch THEN [score |-> score, received_at |-> t, consumed |-> FALSE]
        ELSE [buf[c] EXCEPT !.received_at = t]]

\* mutant: a channel that already has an entry keeps it
StoreSignal_KeepOld(buf, ch, score, t) ==
    [c \in (DOMAIN buf) \cup {ch} |->
        IF c \in DOMAIN buf THEN buf[c]
        ELSE [score |-> score, received_at |-> t, consumed |-> FALSE]]

\* risk_fusion_agent.py:284-290.  The field consumed is history: it records
\* that the entry went into a published RiskOutput.
StoreSignal(buf, ch, score, t) ==
    [c \in (DOMAIN buf) \cup {ch} |->
        IF c = ch THEN [score |-> score, received_at |-> t, consumed |-> FALSE]
        ELSE buf[c]]

MarkConsumed(buf) == [c \in DOMAIN buf |-> [buf[c] EXCEPT !.consumed = TRUE]]

\* mutant: the buffer is kept after a fusion
ClearSignals_Keep(buf) == buf

\* risk_fusion_agent.py:369-370: del self._signal_buffer[truck_id]
ClearSignals(buf) == EmptyBuffer

\* risk_fusion_agent.py:332-347
RiskOutput(truck, id, fused, scores, temporal, reused, via) ==
    [truck |-> truck, incident_id |-> id, timestamp |-> now,
     composite_risk_score |-> fused.score,
     risk_level |-> ClassifyRiskLevel(fused.score),
     confidence |-> fused.confidence,
     component_scores |-> [behaviour |-> scores.behaviour, twin |-> scores.twin,
                           route |-> scores.route, temporal |-> temporal],
     critical_breach |-> CriticalBreach(fused.score),
     fusion_method |-> fused.method,
     reused |-> reused, via |-> via]

(***************************************************************************)
(* DecisionAgent: rules and state                                          *)
(***************************************************************************)
Evaluators == {"stream", "bridge"}
RuleIds == {"R001", "R002", "R003"}
NoRule == "null"

\* the state of the decision side before any risk message or bridge request
DecisionIdle ==
    /\ storeUp = TRUE
    /\ cooldown = [k \in Trucks \X RuleIds |-> 0]
    /\ riskTopic = <<>>
    /\ decisionAgent = "unset"
    /\ pc = [e \in Evaluators |-> "idle"]
    /\ cur = [e \in Evaluators |-> [truck |-> NoTruck]]
    /\ decisionOut = [truck |-> NoTruck]
    /\ fired = [k \in Trucks \X RuleIds |-> <<>>]
    /\ actionLog = {}
    /\ alerts = {}
    /\ failures = {}

NoPerception == [truck |-> NoTruck]
NoBehaviour == [truck |-> NoTruck]

\* the BehaviourAgent before its first perception message
BehaviourIdle ==
    /\ behaviour_model = FALSE
    /\ perception = NoPerception
    /\ behaviourOut = NoBehaviour

NoBaseline == [name |-> "none"]
NoTwin == [truck |-> NoTruck]
NoRoute == [truck |-> NoTruck]

\* the twin and route agents before their first request, in the day
PipelineIdle ==
    /\ clock_hour = 13
    /\ twin_states = [t \in Trucks |-> NoBaseline]
    /\ twinOut = NoTwin
    /\ routeOut = NoRoute
    /\ agentAlerts = {}

NoExplanation == [truck |-> NoTruck]

\* the ExplainabilityAgent after __init__, and the risk and decision channels
\* before any message
ExplainIdle ==
    /\ explainRunning = FALSE
    /\ risk_cache = <<>>
    /\ riskSent = 0
    /\ decisionSent = 0
    /\ explainOut = NoExplanation

\* no incident was logged and no evaluation is logging one
IncidentIdle ==
    /\ incident_list = <<>>
    /\ logPc = [e \in Evaluators |-> "idle"]
    /\ nextLogged = 0

NoCall == [incident_id |-> 0, calls |-> 0, failed |-> FALSE]

\* explainability_agent.py:38-39: the defaults of LLM_PROVIDER and
\* OPENAI_API_KEY
SummarizerIdle ==
    /\ llm_provider = "template"
    /\ openai_key = FALSE
    /\ llm_call = NoCall

NoResponse == 0
NoText == [model |-> "none"]

\* no bridge view has answered an error, no alert carries an explanation
HttpIdle ==
    /\ httpRejected = NoResponse
    /\ ai_explanation = NoText
    /\ framesPublished = 0

\* decision_agent.py:87-93 and 233-245: started, subscribed, in the loop
LoopIdle ==
    /\ running = TRUE
    /\ loopPc = "looping"
    /\ conn_cut = FALSE
    /\ inflight_at_stop = 0

\* no simulate or vision-event request was served
TripIdle ==
    /\ injected = 0
    /\ injected_points = 0

\* RouteAgent.run has seen no message
RouteIdle ==
    /\ twin_topic = <<>>
    /\ route_handled = 0
    /\ route_published = <<>>
    /\ route_status = NoRoute

\* ExplainabilityAgent.run has received no decision
OrderIdle ==
    /\ decisions_received = <<>>
    /\ explain_tasks = {}
    /\ explain_published = <<>>

\* _get_baseline was never called and the store holds no baseline
BaselineIdle ==
    /\ twin_store = [t \in Trucks |-> NoBaseline]
    /\ store_gets = 0
    /\ baseline_log = <<>>

LateIdle == TripIdle /\ RouteIdle /\ OrderIdle /\ BaselineIdle

MoreIdle == SummarizerIdle /\ HttpIdle /\ LoopIdle /\ LateIdle

AuxIdle == ExplainIdle /\ IncidentIdle /\ MoreIdle

\* the agents around the fusion and decision agents, before any message
ExtIdle == BehaviourIdle /\ PipelineIdle /\ AuxIdle

\* models.py:177-184 Trip.status values a trip starts a run with
TripStatusSamples == {"Scheduled", "Completed"}

\* agent_views.py:866-871 and 277-281: escalation never leaves Alert / Completed
Escalate(status, wanted) ==
    IF wanted /\ status \notin {"Alert", "Completed"} THEN "Alert" ELSE status

FusionInit ==
    /\ now = 0
    /\ signal_buffer = [t \in Trucks |-> EmptyBuffer]
    /\ bn_model \in BOOLEAN
    /\ nextSig = 0
    /\ nextIncident = 0
    /\ lastRisk = NoRisk
    /\ riskPublished = {}
    /\ event = [op |-> "init", truck |-> NoTruck, channel |-> "none", score |-> 0,
                 fired |-> FALSE]
    /\ DecisionIdle
    /\ ExtIdle
    /\ trip_status = "Scheduled"

\* the two reads of datetime.now().hour of one fusion are the same hour or
\* straddle the turn of the hour
HourPairs == {<<h, h>> : h \in Hours} \cup {<<21, 22>>}

\* what bn_inference.query can do: answer, or raise; not called without a model
BayesAnswers == IF bn_model THEN BayesSamples \cup {BayesFailed} ELSE {BayesFailed}

\* risk_fusion_agent.py:263-370: one message of the run loop, from get_message
\* to the end of the locked block
FusionReceive(truck, ch, score) ==
    /\ nextSig < MaxSignals
    /\ LET buf == StoreSignal(signal_buffer[truck], ch, score, now)
           fire == HasAllChannels(buf) /\ AllFresh(buf, now)
       IN /\ nextSig' = nextSig + 1
          /\ IF fire
             THEN /\ nextIncident < MaxIncidents
                  /\ \E hp \in HourPairs, answer \in BayesAnswers :
                       LET scores == [c \in Channels |-> buf[c].score]
                           ages == [c \in Channels |-> now - buf[c].received_at]
                           fused == IF bn_model
                                    THEN BayesianFusion(scores, GetTemporalScore(hp[1]), answer)
                                    ELSE WeightedFusion(scores, ages, GetTemporalScore(hp[1]))
                           reused == \E c \in Channels : buf[c].consumed
                           id == nextIncident + 1
                       IN /\ lastRisk' = RiskOutput(truck, id, fused, scores,
                                                    GetTemporalScore(hp[2]), reused, "stream")
                          /\ nextIncident' = id
                          /\ riskPublished' = riskPublished \cup {id}
                          /\ signal_buffer' = [signal_buffer EXCEPT
                                                  ![truck] = ClearSignals(MarkConsumed(buf))]
             ELSE /\ signal_buffer' = [signal_buffer EXCEPT ![truck] = buf]
                  /\ UNCHANGED <<lastRisk, nextIncident, riskPublished>>
          /\ event' = [op |-> "recv", truck |-> truck, channel |-> ch, score |-> score,
                        fired |-> fire]
    /\ UNCHANGED <<now, bn_model>>
    /\ UNCHANGED decisionVars
    /\ UNCHANGED extVars

\* agent_views.py:810-881 RiskFusionView.post with a stored trip and a
\* connected publisher
BridgeRiskFusion(truck, b, tw, r) ==
    /\ nextIncident < MaxIncidents
    /\ \E hp \in HourPairs :
         LET scores == [behaviour |-> b, twin |-> tw, route |-> r]
             ages == [behaviour |-> 0, twin |-> 0, route |-> 0, temporal |-> 0]
             fused == WeightedFusion(scores, ages, GetTemporalScore(hp[1]))
             id == nextIncident + 1
         IN /\ lastRisk' = RiskOutput(truck, id, fused, scores,
                                      GetTemporalScore(hp[2]), FALSE, "bridge")
            /\ nextIncident' = id
            /\ riskPublished' = riskPublished \cup {id}
            /\ trip_status' = Escalate(trip_status,
                                       ClassifyRiskLevel(fused.score) \in {"HIGH", "CRITICAL"})
    /\ event' = [op |-> "bridge", truck |-> truck, channel |-> "none", score |-> 0,
                  fired |-> TRUE]
    /\ UNCHANGED <<now, signal_buffer, bn_model, nextSig>>
    /\ UNCHANGED <<storeUp, cooldown, riskTopic, decisionAgent, pc, cur, decisionOut,
                   fired, actionLog, alerts, failures>>
    /\ UNCHANGED extVars

\* wall-clock time passes between two messages
TickFusion(gap) ==
    /\ now + gap <= MaxTime
    /\ now' = now + gap
    /\ UNCHANGED <<signal_buffer, bn_model, nextSig, nextIncident,
                   lastRisk, riskPublished, event>>
    /\ UNCHANGED decisionVars
    /\ UNCHANGED extVars

FusionNext ==
    \/ \E truck \in Trucks, ch \in Channels, score \in StreamScores :
          FusionReceive(truck, ch, score)
    \/ \E gap \in Gaps : TickFusion(gap)

SpecFusion == FusionInit /\ [][FusionNext]_vars

\* the Redis commands of an emission, in the order run issues them
\* (risk_fusion_agent.py:349-357)
EmissionCommands == {"publish", "setex"}

\* risk_fusion_agent.py:263-374 when a command of the emission raises: the
\* signal is stored, the fusion is computed and the incident id drawn; a
\* failed publish leaves it at that, a failed setex comes after the publish;
\* in both cases del self._signal_buffer[truck_id] is not reached and the
\* except branch (372-374) goes on to the next message
FusionReceiveFails(truck, ch, score, failing) ==
    /\ nextSig < MaxSignals
    /\ nextIncident < MaxIncidents
    /\ LET buf == StoreSignal(signal_buffer[truck], ch, score, now)
       IN /\ HasAllChannels(buf) /\ AllFresh(buf, now)
          /\ nextSig' = nextSig + 1
          /\ nextIncident' = nextIncident + 1
          /\ IF failing = "publish"
             THEN /\ signal_buffer' = [signal_buffer EXCEPT ![truck] = buf]
                  /\ UNCHANGED <<lastRisk, riskPublished>>
             ELSE \E hp \in HourPairs, answer \in BayesAnswers :
                    LET scores == [c \in Channels |-> buf[c].score]
                        ages == [c \in Channels |-> now - buf[c].received_at]
                        fused == IF bn_model
                                 THEN BayesianFusion(scores, GetTemporalScore(hp[1]), answer)
                                 ELSE WeightedFusion(scores, ages, GetTemporalScore(hp[1]))
                        reused == \E c \in Channels : buf[c].consumed
                    IN /\ lastRisk' = RiskOutput(truck, nextIncident + 1, fused, scores,
                                                 GetTemporalScore(hp[2]), reused, "stream")
                       /\ riskPublished' = riskPublished \cup {nextIncident + 1}
                       /\ signal_buffer' = [signal_buffer EXCEPT
                                               ![truck] = MarkConsumed(buf)]
          /\ event' = [op |-> failing, truck |-> truck, channel |-> ch, score |-> score,
                        fired |-> TRUE]
    /\ UNCHANGED <<now, bn_model>>
    /\ UNCHANGED decisionVars
    /\ UNCHANGED extVars

\* the truck whose signals arrive while Redis commands may fail
FaultTrucks == {"TRK1"}

\* the run loop while Redis commands may fail, without a Bayesian network
FusionFaultNext ==
    \/ \E truck \in FaultTrucks, ch \in Channels, score \in StreamScores :
          FusionReceive(truck, ch, score)
    \/ \E truck \in FaultTrucks, ch \in Channels, score \in StreamScores,
          failing \in EmissionCommands :
          FusionReceiveFails(truck, ch, score, failing)
    \/ \E gap \in Gaps : TickFusion(gap)

FusionFaultInit == FusionInit /\ bn_model = FALSE

SpecFusionFault == FusionFaultInit /\ [][FusionFaultNext]_vars

\* the /agents/risk-fusion bridge alone: it reads and writes no agent state
FusionBridgeNext ==
    \E truck \in Trucks, b \in ScoreSamples, tw \in ScoreSamples, r \in ScoreSamples :
        BridgeRiskFusion(truck, b, tw, r)

FusionBridgeInit ==
    /\ now = 0
    /\ signal_buffer = [t \in Trucks |-> EmptyBuffer]
    /\ bn_model \in BOOLEAN
    /\ nextSig = 0
    /\ nextIncident = 0
    /\ lastRisk = NoRisk
    /\ riskPublished = {}
    /\ event = [op |-> "init", truck |-> NoTruck, channel |-> "none", score |-> 0,
                 fired |-> FALSE]
    /\ DecisionIdle
    /\ ExtIdle
    /\ trip_status \in TripStatusSamples

SpecFusionBridge == FusionBridgeInit /\ [][FusionBridgeNext]_vars

\* test_all_apis.py:422-443: the scores of the LOW and of the HIGH request
\* posted to /agents/risk-fusion
BridgeBehaviourScores == {100, 900}
BridgeTwinScores == {100, 850}
BridgeRouteScores == {50, 800}

\* the bridge fed with the scores of the API checks
FusionHighNext ==
    \E truck \in Trucks, b \in BridgeBehaviourScores, tw \in BridgeTwinScores,
       r \in BridgeRouteScores :
        BridgeRiskFusion(truck, b, tw, r)

SpecFusionHigh == FusionBridgeInit /\ [][FusionHighNext]_vars

(***************************************************************************)
(* RiskFusionAgent: long idle periods and changing scores                  *)
(***************************************************************************)
\* total number of bus signals delivered when long idle periods are explored
MaxIdleSignals == 4
\* last second of wall-clock time explored with long idle periods
MaxIdleTime == 101

\* scores of successive payloads of one channel
BufferScores == {600, 900}

\* seconds between two messages: just over ten times the staleness window
IdleGaps == {101}

\* risk_fusion_agent.py:263-370, one message of the run loop
IdleReceive(truck, ch, score) ==
    /\ nextSig < MaxIdleSignals
    /\ FusionReceive(truck, ch, score)

\* get_message(timeout=1.0) returns nothing, again and again: no statement of
\* the loop touches the buffer
TickIdle(gap) ==
    /\ now + gap <= MaxIdleTime
    /\ now' = now + gap
    /\ UNCHANGED <<signal_buffer, bn_model, nextSig, nextIncident,
                   lastRisk, riskPublished, event>>
    /\ UNCHANGED decisionVars
    /\ UNCHANGED extVars

FusionIdleNext ==
    \/ \E truck \in Trucks, ch \in Channels, score \in BufferScores :
          IdleReceive(truck, ch, score)
    \/ \E gap \in IdleGaps : TickIdle(gap)

SpecFusionIdle == FusionInit /\ [][FusionIdleNext]_vars

(***************************************************************************)
(* DecisionAgent: rule engine                                              *)
(***************************************************************************)
\* instants, in seconds, at which the decision specifications look at the
\* system: the expiry of each rule's cooldown counted from 0
ClockSamples == {0, 300, 600, 1800}

\* composite scores of the risk inputs, in thousandths: the rule boundaries,
\* the value below each, and one value outside [0,1] seen only on the bus
DecisionScores == {449, 450, 649, 650, 849, 850}
BusOnlyScores == {1200}

\* risk_level values a bridge request may carry next to its score
LevelSamples == {"UNKNOWN"}

\* decision_agent.py:45-70
RULES == <<
    [id |-> "R001", name |-> "CRITICAL_THEFT_ALERT",
     actions |-> <<"sms", "email", "log_incident">>, cooldown_s |-> 300, priority |-> 1],
    [id |-> "R002", name |-> "HIGH_RISK_ALERT",
     actions |-> <<"email", "log_incident">>, cooldown_s |-> 600, priority |-> 2],
    [id |-> "R003", name |-> "MEDIUM_RISK_MONITOR",
     actions |-> <<"log_incident">>, cooldown_s |-> 1800, priority |-> 3] >>

\* mutant: R002 loses its upper bound
RuleCondition_NoUpper(id, score) ==
    CASE id = "R001" -> score >= 850
      [] id = "R002" -> 650 <= score
      [] id = "R003" -> 450 <= score /\ score < 650

\* decision_agent.py:49, 57, 65: the condition lambdas
RuleCondition(id, score) ==
    CASE id = "R001" -> score >= 850
      [] id = "R002" -> 650 <= score /\ score < 850
      [] id = "R003" -> 450 <= score /\ score < 650

\* decision_agent.py:177-182: index of the first rule, by priority, whose
\* condition holds; 0 when none does
MatchRule(score) ==
    LET hits == {i \in 1..Len(RULES) : RuleCondition(RULES[i].id, score)}
    IN IF hits = {} THEN 0
       ELSE CHOOSE i \in hits : \A j \in hits : RULES[i].priority <= RULES[j].priority

NoInput == [truck |-> NoTruck]
NoDecision == [truck |-> NoTruck]

\* mutant: any cooldown key of the truck counts, whatever its rule
IsOnCooldown_AnyRule(truck, rule_id) == \E r \in RuleIds : cooldown[<<truck, r>>] > now

\* decision_agent.py:102-106: redis.get(key) is not None
IsOnCooldown(truck, rule_id) == cooldown[<<truck, rule_id>>] > now

\* decision_agent.py:108-111: redis.set(key, "1", ex=cooldown_s)
SetCooldownKey(store, truck, rule_id, cooldown_s) ==
    [store EXCEPT ![<<truck, rule_id>>] = now + cooldown_s]

\* Redis drops a key once its time to live has run out
ExpireKeys(store, t) == [k \in DOMAIN store |-> IF store[k] > t THEN store[k] ELSE 0]

\* mutant: the decision takes a fresh incident id instead of the message's
StreamRiskInput_FreshId(msg) ==
    [truck |-> msg.truck, incident_id |-> msg.incident_id + MaxIncidents + 1,
     composite_risk_score |-> msg.composite_risk_score, risk_level |-> msg.risk_level]

\* decision_agent.py:252-255: RiskInput(**payload)
StreamRiskInput(msg) ==
    [truck |-> msg.truck, incident_id |-> msg.incident_id,
     composite_risk_score |-> msg.composite_risk_score, risk_level |-> msg.risk_level]

\* agent_views.py:232-243: the bridge allocates the incident id itself
BridgeRiskInput(truck, id, score, level) ==
    [truck |-> truck, incident_id |-> id,
     composite_risk_score |-> score, risk_level |-> level]

\* mutant: a suppressed decision still reports the rule's actions
SuppressedDecision_WithActions(input, rule) ==
    [truck |-> input.truck, incident_id |-> input.incident_id, timestamp |-> now,
     rule_id |-> rule.id, rule_name |-> rule.name, actions_taken |-> rule.actions,
     alert_suppressed |-> TRUE, suppression_reason |-> "Cooldown active",
     risk_score |-> input.composite_risk_score, risk_level |-> input.risk_level,
     via |-> "none"]

\* decision_agent.py:187-198
SuppressedDecision(input, rule) ==
    [truck |-> input.truck, incident_id |-> input.incident_id, timestamp |-> now,
     rule_id |-> rule.id, rule_name |-> rule.name, actions_taken |-> <<>>,
     alert_suppressed |-> TRUE, suppression_reason |-> "Cooldown active",
     risk_score |-> input.composite_risk_score, risk_level |-> input.risk_level,
     via |-> "none"]

\* decision_agent.py:206-217
FiredDecision(input, rule) ==
    [truck |-> input.truck, incident_id |-> input.incident_id, timestamp |-> now,
     rule_id |-> rule.id, rule_name |-> rule.name, actions_taken |-> rule.actions,
     alert_suppressed |-> FALSE, suppression_reason |-> "null",
     risk_score |-> input.composite_risk_score, risk_level |-> input.risk_level,
     via |-> "none"]

\* decision_agent.py:220-231
NoRuleDecision(input) ==
    [truck |-> input.truck, incident_id |-> input.incident_id, timestamp |-> now,
     rule_id |-> NoRule, rule_name |-> "null", actions_taken |-> <<>>,
     alert_suppressed |-> FALSE, suppression_reason |-> "null",
     risk_score |-> input.composite_risk_score, risk_level |-> input.risk_level,
     via |-> "none"]

SeqToSet(q) == {q[i] : i \in 1..Len(q)}

\* decision_agent.py:159-172
ExecutedActions(input, rule) == {<<input.incident_id, a>> : a \in SeqToSet(rule.actions)}

\* the last two fired timestamps of a key, newest last
RecordFired(log, truck, rule_id, t) ==
    LET old == log[<<truck, rule_id>>]
    IN [log EXCEPT ![<<truck, rule_id>>] =
            IF Len(old) = 0 THEN <<t>> ELSE <<old[Len(old)], t>>]

\* mutant: a suppressed decision gets an Alert row as well
AlertsAfter_EvenSuppressed(rows, out) ==
    IF out.rule_id # NoRule
    THEN rows \cup {[incident_id |-> out.incident_id,
                     severity |-> CASE out.rule_id = "R001" -> "Critical"
                                    [] out.rule_id = "R002" -> "High"
                                    [] OTHER -> "Medium",
                     risk_score |-> Min(out.risk_score, 1000)]}
    ELSE rows

\* agent_views.py:259-275: the Alert row of a fired, unsuppressed decision
AlertsAfter(rows, out) ==
    IF out.rule_id # NoRule /\ ~out.alert_suppressed
    THEN rows \cup {[incident_id |-> out.incident_id,
                     severity |-> CASE out.rule_id = "R001" -> "Critical"
                                    [] out.rule_id = "R002" -> "High"
                                    [] OTHER -> "Medium",
                     risk_score |-> Min(out.risk_score, 1000)]}
    ELSE rows

\* agent_views.py:277-281
TripAfter(status, out) ==
    Escalate(status, out.rule_id \in {"R001", "R002"} /\ ~out.alert_suppressed)

\* the end of an evaluation: the streaming agent publishes the decision
\* (decision_agent.py:260-264), the bridge stores its alert and answers
\* (agent_views.py:259-292)
Complete(e, out) ==
    /\ decisionOut' = [out EXCEPT !.via = e]
    /\ pc' = [pc EXCEPT ![e] = "idle"]
    /\ cur' = [cur EXCEPT ![e] = NoInput]
    /\ IF e = "bridge"
       THEN /\ alerts' = AlertsAfter(alerts, out)
            /\ trip_status' = TripAfter(trip_status, out)
       ELSE UNCHANGED <<alerts, trip_status>>

\* decision_agent.py:174-182: the synchronous head of _evaluate_rules
BeginEvaluation(e, input) ==
    LET i == MatchRule(input.composite_risk_score)
    IN IF i = 0
       THEN Complete(e, NoRuleDecision(input))
       ELSE /\ pc' = [pc EXCEPT ![e] = "check"]
            /\ cur' = [cur EXCEPT ![e] = [input |-> input, rule |-> i, truck |-> input.truck]]
            /\ UNCHANGED <<decisionOut, alerts, trip_status>>

\* risk_fusion_agent.py:332-353 / agent_views.py:836-858: a RiskOutput with a
\* fresh incident id is put on risk.output
PublishRisk(truck, score) ==
    /\ storeUp
    /\ nextIncident < MaxIncidents
    /\ Len(riskTopic) < 1
    /\ nextIncident' = nextIncident + 1
    /\ riskPublished' = riskPublished \cup {nextIncident + 1}
    /\ riskTopic' = Append(riskTopic,
                           [truck |-> truck, incident_id |-> nextIncident + 1,
                            composite_risk_score |-> score,
                            risk_level |-> ClassifyRiskLevel(score)])
    /\ UNCHANGED <<now, signal_buffer, bn_model, nextSig, lastRisk, event>>
    /\ UNCHANGED <<storeUp, cooldown, decisionAgent, pc, cur, decisionOut, fired,
                   actionLog, alerts, failures, trip_status>>
    /\ UNCHANGED extVars

\* decision_agent.py:247-258: the run loop takes the next risk message
StreamReceive ==
    /\ storeUp
    /\ pc["stream"] = "idle"
    /\ riskTopic # <<>>
    /\ riskTopic' = Tail(riskTopic)
    /\ BeginEvaluation("stream", StreamRiskInput(Head(riskTopic)))
    /\ UNCHANGED fusionVars
    /\ UNCHANGED <<storeUp, cooldown, decisionAgent, fired, actionLog, failures>>
    /\ UNCHANGED extVars

\* agent_views.py:220-257 DecisionView.post with a stored trip and a score in
\* [0,1]; _get_decision_agent (68-96) finds Redis reachable or already has
BridgeRequest(truck, score, level) ==
    /\ decisionAgent = "redis" \/ (decisionAgent = "unset" /\ storeUp)
    /\ pc["bridge"] = "idle"
    /\ nextIncident < MaxIncidents
    /\ nextIncident' = nextIncident + 1
    /\ decisionAgent' = "redis"
    /\ BeginEvaluation("bridge", BridgeRiskInput(truck, nextIncident + 1, score, level))
    /\ UNCHANGED <<now, signal_buffer, bn_model, nextSig, lastRisk, riskPublished, event>>
    /\ UNCHANGED <<storeUp, cooldown, riskTopic, fired, actionLog, failures>>
    /\ UNCHANGED extVars

\* decision_agent.py:184-198
CheckCooldown(e) ==
    /\ storeUp
    /\ pc[e] = "check"
    /\ LET input == cur[e].input
           rule == RULES[cur[e].rule]
       IN IF IsOnCooldown(input.truck, rule.id)
          THEN Complete(e, SuppressedDecision(input, rule))
          ELSE /\ pc' = [pc EXCEPT ![e] = "set"]
               /\ UNCHANGED <<cur, decisionOut, alerts, trip_status>>
    /\ UNCHANGED fusionVars
    /\ UNCHANGED <<storeUp, cooldown, riskTopic, decisionAgent, fired, actionLog, failures>>
    /\ UNCHANGED extVars

\* decision_agent.py:200-201
SetCooldown(e) ==
    /\ storeUp
    /\ pc[e] = "set"
    /\ LET input == cur[e].input
           rule == RULES[cur[e].rule]
       IN cooldown' = SetCooldownKey(cooldown, input.truck, rule.id, rule.cooldown_s)
    /\ pc' = [pc EXCEPT ![e] = "act"]
    /\ UNCHANGED fusionVars
    /\ UNCHANGED <<storeUp, riskTopic, decisionAgent, cur, decisionOut, fired,
                   actionLog, alerts, failures, trip_status>>
    /\ UNCHANGED extVars

\* decision_agent.py:203-217
ExecuteActions(e) ==
    /\ storeUp
    /\ pc[e] = "act"
    /\ LET input == cur[e].input
           rule == RULES[cur[e].rule]
       IN /\ actionLog' = actionLog \cup ExecutedActions(input, rule)
          /\ fired' = RecordFired(fired, input.truck, rule.id, now)
          /\ Complete(e, FiredDecision(input, rule))
    /\ UNCHANGED fusionVars
    /\ UNCHANGED <<storeUp, cooldown, riskTopic, decisionAgent, failures>>
    /\ UNCHANGED extVars

\* wall-clock time passes while no evaluation is under way
DecisionTick(t) ==
    /\ \A e \in Evaluators : pc[e] = "idle"
    /\ t > now
    /\ now' = t
    /\ cooldown' = ExpireKeys(cooldown, t)
    /\ UNCHANGED <<signal_buffer, bn_model, nextSig, nextIncident, lastRisk,
                   riskPublished, event>>
    /\ UNCHANGED <<storeUp, riskTopic, decisionAgent, pc, cur, decisionOut, fired,
                   actionLog, alerts, failures, trip_status>>
    /\ UNCHANGED extVars

DecisionInit ==
    /\ now = 0
    /\ signal_buffer = [t \in Trucks |-> EmptyBuffer]
    /\ bn_model = FALSE
    /\ nextSig = 0
    /\ nextIncident = 0
    /\ lastRisk = NoRisk
    /\ riskPublished = {}
    /\ event = [op |-> "init", truck |-> NoTruck, channel |-> "none", score |-> 0,
                 fired |-> FALSE]
    /\ DecisionIdle
    /\ ExtIdle
    /\ trip_status = "Scheduled"

DecisionNext ==
    \/ \E truck \in Trucks, score \in DecisionScores \cup BusOnlyScores :
          PublishRisk(truck, score)
    \/ StreamReceive
    \/ \E truck \in Trucks, score \in DecisionScores, level \in LevelSamples :
          BridgeRequest(truck, score, level)
    \/ \E e \in Evaluators : CheckCooldown(e)
    \/ \E e \in Evaluators : SetCooldown(e)
    \/ \E e \in Evaluators : ExecuteActions(e)
    \/ \E t \in ClockSamples : DecisionTick(t)

SpecDecision == DecisionInit /\ [][DecisionNext]_vars

(***************************************************************************)
(* DecisionAgent: Redis unreachable                                        *)
(***************************************************************************)
\* the Redis server stops answering
StoreFail ==
    /\ storeUp
    /\ storeUp' = FALSE
    /\ UNCHANGED fusionVars
    /\ UNCHANGED <<cooldown, riskTopic, decisionAgent, pc, cur, decisionOut, fired,
                   actionLog, alerts, failures, trip_status>>
    /\ UNCHANGED extVars

\* decision_agent.py:162-168 with agent_views.py:90-93: sms and email run, the
\* patched _log_incident does nothing
PatchedActions(input, rule) ==
    {<<input.incident_id, a>> : a \in SeqToSet(rule.actions) \ {"log_incident"}}

\* agent_views.py:68-96 and 220-292: the bridge agent was built while Redis was
\* unreachable (or is built now), so _is_on_cooldown, _set_cooldown and
\* _log_incident are the patched no-ops and _evaluate_rules touches no store
BridgeRequestPatched(truck, score, level) ==
    /\ decisionAgent = "patched" \/ (decisionAgent = "unset" /\ ~storeUp)
    /\ pc["bridge"] = "idle"
    /\ nextIncident < MaxIncidents
    /\ nextIncident' = nextIncident + 1
    /\ decisionAgent' = "patched"
    /\ LET input == BridgeRiskInput(truck, nextIncident + 1, score, level)
           i == MatchRule(score)
       IN IF i = 0
          THEN /\ Complete("bridge", NoRuleDecision(input))
               /\ UNCHANGED <<actionLog, fired>>
          ELSE /\ actionLog' = actionLog \cup PatchedActions(input, RULES[i])
               /\ fired' = RecordFired(fired, truck, RULES[i].id, now)
               /\ Complete("bridge", FiredDecision(input, RULES[i]))
    /\ UNCHANGED <<now, signal_buffer, bn_model, nextSig, lastRisk, riskPublished, event>>
    /\ UNCHANGED <<storeUp, cooldown, riskTopic, failures>>
    /\ UNCHANGED extVars

\* the evaluation raises: the run loop logs and goes on without publishing
\* (decision_agent.py:286-288), the bridge answers 500 (agent_views.py:256-257)
Raise(e) ==
    /\ failures' = failures \cup {cur[e].input.incident_id}
    /\ pc' = [pc EXCEPT ![e] = "idle"]
    /\ cur' = [cur EXCEPT ![e] = NoInput]

\* decision_agent.py:105: redis.get raises ConnectionError
CheckCooldownFail(e) ==
    /\ ~storeUp
    /\ pc[e] = "check"
    /\ Raise(e)
    /\ UNCHANGED fusionVars
    /\ UNCHANGED <<storeUp, cooldown, riskTopic, decisionAgent, decisionOut, fired,
                   actionLog, alerts, trip_status>>
    /\ UNCHANGED extVars

\* decision_agent.py:111: redis.set raises ConnectionError
SetCooldownFail(e) ==
    /\ ~storeUp
    /\ pc[e] = "set"
    /\ Raise(e)
    /\ UNCHANGED fusionVars
    /\ UNCHANGED <<storeUp, cooldown, riskTopic, decisionAgent, decisionOut, fired,
                   actionLog, alerts, trip_status>>
    /\ UNCHANGED extVars

\* decision_agent.py:162-171: sms and email run, then redis.lpush of
\* _log_incident raises ConnectionError
ExecuteActionsFail(e) ==
    /\ ~storeUp
    /\ pc[e] = "act"
    /\ actionLog' = actionLog \cup PatchedActions(cur[e].input, RULES[cur[e].rule])
    /\ Raise(e)
    /\ UNCHANGED fusionVars
    /\ UNCHANGED <<storeUp, cooldown, riskTopic, decisionAgent, decisionOut, fired,
                   alerts, trip_status>>
    /\ UNCHANGED extVars

DecisionFaultNext ==
    \/ DecisionNext
    \/ StoreFail
    \/ \E truck \in Trucks, score \in DecisionScores, level \in LevelSamples :
          BridgeRequestPatched(truck, score, level)
    \/ \E e \in Evaluators : CheckCooldownFail(e)
    \/ \E e \in Evaluators : SetCooldownFail(e)
    \/ \E e \in Evaluators : ExecuteActionsFail(e)

SpecDecisionFault == DecisionInit /\ [][DecisionFaultNext]_vars

(***************************************************************************)
(* The /agents/decision bridge and the trip                                *)
(***************************************************************************)
\* models.py:172-180: Trip.status of the trip when the first request arrives
BridgeTripStatuses == {"Scheduled", "In-Transit", "Completed"}

DecisionBridgeInit ==
    /\ now = 0
    /\ signal_buffer = [t \in Trucks |-> EmptyBuffer]
    /\ bn_model = FALSE
    /\ nextSig = 0
    /\ nextIncident = 0
    /\ lastRisk = NoRisk
    /\ riskPublished = {}
    /\ event = [op |-> "init", truck |-> NoTruck, channel |-> "none", score |-> 0,
                 fired |-> FALSE]
    /\ DecisionIdle
    /\ ExtIdle
    /\ trip_status \in BridgeTripStatuses

\* requests to /agents/decision alone, with Redis reachable
DecisionBridgeNext ==
    \/ \E truck \in Trucks, score \in DecisionScores, level \in LevelSamples :
          BridgeRequest(truck, score, level)
    \/ CheckCooldown("bridge")
    \/ SetCooldown("bridge")
    \/ ExecuteActions("bridge")
    \/ \E t \in ClockSamples : DecisionTick(t)

SpecDecisionBridge == DecisionBridgeInit /\ [][DecisionBridgeNext]_vars

(***************************************************************************)
(* BehaviourAgent                                                          *)
(***************************************************************************)
\* largest number of tracks in one perception message
MaxTracks == 3

\* tracks of a perception payload: raw is what model.decision_function
\* answers for the track's features, in thousandths; dwell_seconds in
\* seconds; velocity in whole units per second
TrackSamples ==
    { [raw |-> -200, dwell_seconds |-> 80, dx |-> 0, dy |-> 0],
      [raw |-> 100, dwell_seconds |-> 25, dx |-> 0, dy |-> 0],
      [raw |-> 100, dwell_seconds |-> 31, dx |-> 3, dy |-> 4] }

\* how a payload numbers its tracks: every track its own track_id, or one
\* track_id for all of them
TrackIdPatterns == {"distinct", "shared"}

WithTrackIds(tracks, pattern) ==
    [i \in 1..Len(tracks) |->
        [track_id |-> IF pattern = "distinct" THEN i ELSE 1] @@ tracks[i]]

Batches ==
    {WithTrackIds(tracks, pattern) :
        tracks \in UNION {[1..n -> TrackSamples] : n \in 0..MaxTracks},
        pattern \in TrackIdPatterns}

\* hours at which the agent reads datetime.now().hour
BehaviourHours == {2, 13}

\* behavior_agent.py:45-46, in thousandths and seconds
anomaly_threshold == 600
loitering_threshold_s == 30

\* math.sqrt(dx**2 + dy**2) for velocities whose magnitude is a whole number
VelocityMagnitude(dx, dy) == CHOOSE v \in 0..(dx + dy) : v * v = dx * dx + dy * dy

\* behavior_agent.py:94-117
HeuristicScore(track, hour) ==
    LET a == IF track.dwell_seconds > 30 THEN 400 ELSE 0
        b == IF track.dwell_seconds > 60 THEN 300 ELSE 0
        c == IF 2 * VelocityMagnitude(track.dx, track.dy) < 1 /\ track.dwell_seconds > 20
             THEN 200 ELSE 0
        d == IF hour >= 22 \/ hour <= 5 THEN 100 ELSE 0
    IN Min(a + b + c + d, 1000)

SeqMin(q) == CHOOSE x \in SeqToSet(q) : \A y \in SeqToSet(q) : x <= y
SeqMax(q) == CHOOSE x \in SeqToSet(q) : \A y \in SeqToSet(q) : x >= y

Clip01(x) == IF x < 0 THEN 0 ELSE IF x > 1000 THEN 1000 ELSE x

\* behavior_agent.py:119-138
NormalizeIfScore(raw_scores) ==
    IF Len(raw_scores) = 0 THEN <<>>
    ELSE IF SeqMin(raw_scores) = SeqMax(raw_scores)
         THEN [i \in 1..Len(raw_scores) |-> 0]
         ELSE [i \in 1..Len(raw_scores) |->
                  Clip01(((raw_scores[i] - SeqMin(raw_scores)) * 1000)
                         \div (SeqMax(raw_scores) - SeqMin(raw_scores)))]

\* behavior_agent.py:155-168: the score of one track; the model is asked for
\* this track alone and its answer is normalised as an array of one element
TrackScore(track, hour, learned) ==
    IF learned THEN NormalizeIfScore(<<track.raw>>)[1]
    ELSE HeuristicScore(track, hour)

SeqMax0(q) == IF Len(q) = 0 THEN 0 ELSE SeqMax(q)

\* the track ids of a payload
TrackIds(tracks) == {tracks[i].track_id : i \in 1..Len(tracks)}

\* behavior_agent.py:147-168: raw_scores[track_id] is assigned track after
\* track, so the last track of an id leaves its score
RawScores(tracks, hour, learned) ==
    [id \in TrackIds(tracks) |->
        LET last == CHOOSE i \in 1..Len(tracks) :
                       /\ tracks[i].track_id = id
                       /\ \A j \in 1..Len(tracks) : tracks[j].track_id = id => j <= i
        IN TrackScore(tracks[last], hour, learned)]

\* mutant: any track that dwells counts as loitering, flagged or not
BehaviourOutput_DwellOnly(truck, tracks, hour, learned) ==
    LET raw_scores == RawScores(tracks, hour, learned)
        flagged == {id \in DOMAIN raw_scores : raw_scores[id] > anomaly_threshold}
        overall == SeqMax0(raw_scores)
        loitering == {i \in 1..Len(tracks) : tracks[i].dwell_seconds > loitering_threshold_s}
    IN [truck |-> truck,
        anomaly_score |-> overall,
        is_anomaly |-> overall > anomaly_threshold,
        flagged_track_ids |-> flagged,
        loitering_detected |-> loitering # {},
        loitering_duration_s |-> SeqMax0([i \in 1..Len(tracks) |->
                                            IF i \in loitering THEN tracks[i].dwell_seconds
                                            ELSE 0]),
        crowd_anomaly |-> Len(tracks) > 4 /\ overall > 500,
        raw_scores |-> raw_scores]

\* behavior_agent.py:140-211
BehaviourOutput(truck, tracks, hour, learned) ==
    LET raw_scores == RawScores(tracks, hour, learned)
        flagged == {id \in DOMAIN raw_scores : raw_scores[id] > anomaly_threshold}
        overall == SeqMax0(raw_scores)
        loitering == {i \in 1..Len(tracks) : tracks[i].dwell_seconds > loitering_threshold_s}
    IN [truck |-> truck,
        anomaly_score |-> overall,
        is_anomaly |-> overall > anomaly_threshold,
        flagged_track_ids |-> flagged,
        loitering_detected |-> \E i \in loitering : tracks[i].track_id \in flagged,
        loitering_duration_s |-> SeqMax0([i \in 1..Len(tracks) |->
                                            IF i \in loitering THEN tracks[i].dwell_seconds
                                            ELSE 0]),
        crowd_anomaly |-> Len(tracks) > 4 /\ overall > 500,
        raw_scores |-> raw_scores]

\* behavior_agent.py:231-244, agent_views.py:313-332: one perception payload;
\* predict_ok is false when model.decision_function raises
ProcessPerception(truck, tracks, hour, predict_ok) ==
    /\ perception' = [truck |-> truck, tracks |-> tracks, hour |-> hour,
                      learned |-> behaviour_model /\ predict_ok]
    /\ behaviourOut' = BehaviourOutput(truck, tracks, hour, behaviour_model /\ predict_ok)
    /\ UNCHANGED behaviour_model
    /\ UNCHANGED <<pipelineVars, auxVars>>
    /\ UNCHANGED <<fusionVars, decisionVars>>

BehaviourInit ==
    /\ now = 0
    /\ signal_buffer = [t \in Trucks |-> EmptyBuffer]
    /\ bn_model = FALSE
    /\ nextSig = 0
    /\ nextIncident = 0
    /\ lastRisk = NoRisk
    /\ riskPublished = {}
    /\ event = [op |-> "init", truck |-> NoTruck, channel |-> "none", score |-> 0,
                 fired |-> FALSE]
    /\ DecisionIdle
    /\ trip_status = "Scheduled"
    /\ behaviour_model \in BOOLEAN
    /\ perception = NoPerception
    /\ behaviourOut = NoBehaviour
    /\ PipelineIdle
    /\ AuxIdle

\* the truck whose camera feeds the agent
BehaviourTrucks == {"TRK1"}

BehaviourNext ==
    \E truck \in BehaviourTrucks, tracks \in Batches, hour \in BehaviourHours,
       predict_ok \in (IF behaviour_model THEN BOOLEAN ELSE {TRUE}) :
        ProcessPerception(truck, tracks, hour, predict_ok)

SpecBehaviour == BehaviourInit /\ [][BehaviourNext]_vars

(***************************************************************************)
(* DigitalTwinAgent and RouteAgent                                         *)
(* Latitudes and longitudes are integers, in units of 0.0001 degree;       *)
(* distances on the ground are in metres, weights in kilograms.            *)
(***************************************************************************)
\* GPS positions of the telemetry: the default planned centre, 5 km north of
\* it, inside the Tughlakabad risk zone, and 0.1 degree north of the
\* Delhi-Jaipur corridor
GpsCentre == [lat |-> 286139, lon |-> 772090]
GpsOff5 == [lat |-> 286589, lon |-> 772090]
GpsZone == [lat |-> 285000, lon |-> 773000]
GpsFar == [lat |-> 292100, lon |-> 772090]
GpsSamples == {GpsOff5, GpsZone, GpsFar}

\* digital_twin_agent.py:114-119
DefaultBaseline ==
    [name |-> "default", expected_weight_kg |-> 2000,
     planned_route_center |-> GpsCentre, max_deviation_m |-> 500]

\* a baseline seeded in the store for a truck whose route runs through GpsZone
ZoneBaseline ==
    [name |-> "seeded", expected_weight_kg |-> 2000,
     planned_route_center |-> GpsZone, max_deviation_m |-> 500]

\* what redis.get("twin_baseline:{truck}") answers: nothing, or a baseline
StoredBaselines == {NoBaseline, ZoneBaseline}

\* mutant: the in-memory cache is not looked at
GetBaseline_NoCache(states, truck, stored) ==
    IF stored # NoBaseline THEN stored ELSE DefaultBaseline

\* digital_twin_agent.py:96-127: the cached baseline, else the stored one,
\* else the default
GetBaseline(states, truck, stored) ==
    IF states[truck] # NoBaseline THEN states[truck]
    ELSE IF stored # NoBaseline THEN stored
    ELSE DefaultBaseline

\* digital_twin_agent.py:129-147: the Haversine distance, in metres, for the
\* positions and centres above
GpsDeviationM(p, c) ==
    CASE p = c -> 0
      [] p = GpsOff5 /\ c = GpsCentre -> 5004
      [] p = GpsZone /\ c = GpsCentre -> 15472
      [] p = GpsFar /\ c = GpsCentre -> 66283
      [] p = GpsOff5 /\ c = GpsZone -> 19777
      [] p = GpsFar /\ c = GpsZone -> 79444

Abs(x) == IF x < 0 THEN -x ELSE x

RECURSIVE SeqSum(_)
SeqSum(q) == IF Len(q) = 0 THEN 0 ELSE Head(q) + SeqSum(Tail(q))

\* digital_twin_agent.py:149-192: the score components, in thousandths, in
\* the order weight, door, GPS, signal
DetectDeviations(telemetry, baseline) ==
    LET weight_delta == Abs(telemetry.cargo_weight_kg - baseline.expected_weight_kg)
        deviation_m == GpsDeviationM(telemetry.gps, baseline.planned_route_center)
        weight == IF weight_delta > 50 THEN <<Min(weight_delta * 2, 1000)>> ELSE <<>>
        door == IF telemetry.door_state = "OPEN" /\ ~telemetry.engine_on
                   /\ ~telemetry.driver_rfid_scanned
                THEN <<800>> ELSE <<>>
        gps == IF deviation_m > baseline.max_deviation_m
               THEN <<Min(deviation_m \div 5, 1000)>> ELSE <<>>
        signal == IF telemetry.iot_signal_strength < 300 THEN <<400>> ELSE <<>>
        score_components == weight \o door \o gps \o signal
    IN [deviations |->
            (IF weight # <<>> THEN {"weight"} ELSE {}) \cup
            (IF door # <<>> THEN {"door"} ELSE {}) \cup
            (IF gps # <<>> THEN {"gps"} ELSE {}) \cup
            (IF signal # <<>> THEN {"signal"} ELSE {}),
        deviation_score |->
            IF score_components # <<>>
            THEN Min(SeqSum(score_components) \div Len(score_components), 1000)
            ELSE 0]

\* digital_twin_agent.py:194-201
ClassifyStatus(score) ==
    IF score >= 700 THEN "CRITICAL"
    ELSE IF score >= 400 THEN "DEGRADED"
    ELSE "NOMINAL"

\* digital_twin_agent.py:241-254 / agent_views.py:608-621
TwinOutput(telemetry, baseline) ==
    LET d == DetectDeviations(telemetry, baseline)
    IN [truck |-> telemetry.truck, gps |-> telemetry.gps,
        door_state |-> telemetry.door_state,
        deviation_score |-> d.deviation_score, deviations |-> d.deviations,
        twin_status |-> ClassifyStatus(d.deviation_score),
        baseline |-> baseline.name]

\* route_agent.py:96-123: the default corridors, envelopes of the waypoints
\* widened by 0.5 degree
safe_corridors == <<
    [name |-> "NH-48 Delhi-Jaipur", min_lat |-> 264100, max_lat |-> 291100,
     min_lon |-> 752900, max_lon |-> 777100],
    [name |-> "NH-48 Mumbai-Pune", min_lat |-> 180200, max_lat |-> 195800,
     min_lon |-> 723800, max_lon |-> 743600],
    [name |-> "NH-44 Bangalore-Chennai", min_lat |-> 117000, max_lat |-> 135800,
     min_lon |-> 771000, max_lon |-> 807700],
    [name |-> "NH-16 Kolkata-Bhubaneswar", min_lat |-> 198000, max_lat |-> 230700,
     min_lon |-> 853200, max_lon |-> 888600],
    [name |-> "NH-44 Hyderabad-Nagpur", min_lat |-> 168900, max_lat |-> 216500,
     min_lon |-> 779900, max_lon |-> 800500] >>

\* route_agent.py:125-136
risk_zones == <<
    [name |-> "Narela Industrial Area", min_lat |-> 288500, max_lat |-> 288800,
     min_lon |-> 770800, max_lon |-> 771200],
    [name |-> "Tughlakabad Zone", min_lat |-> 284500, max_lat |-> 285200,
     min_lon |-> 772800, max_lon |-> 773500],
    [name |-> "Khopoli High-Risk Stretch", min_lat |-> 189000, max_lat |-> 190000,
     min_lon |-> 730500, max_lon |-> 732000],
    [name |-> "Hosur Corridor Zone", min_lat |-> 126500, max_lat |-> 127500,
     min_lon |-> 778500, max_lon |-> 779500],
    [name |-> "Mecheda NH-16 Stretch", min_lat |-> 218000, max_lat |-> 219500,
     min_lon |-> 876000, max_lon |-> 878000] >>

RECURSIVE NewtonSqrt(_, _)
NewtonSqrt(n, x) ==
    LET y == (x + n \div x) \div 2
    IN IF y >= x THEN x ELSE NewtonSqrt(n, y)

\* the integer part of the square root
ISqrt(n) == IF n = 0 THEN 0 ELSE NewtonSqrt(n, n)

Max(a, b) == IF a > b THEN a ELSE b

\* point.distance(polygon) for a rectangle, in units of 0.0001 degree (a
\* distance that is not along an axis is exact to 0.001 degree)
Distance(point, box) ==
    LET dx == Max(0, Max(box.min_lon - point.lon, point.lon - box.max_lon))
        dy == Max(0, Max(box.min_lat - point.lat, point.lat - box.max_lat))
    IN IF dx = 0 THEN dy
       ELSE IF dy = 0 THEN dx
       ELSE 10 * ISqrt((dx \div 10) * (dx \div 10) + (dy \div 10) * (dy \div 10))

\* route_agent.py:144-166: 45 units are the 0.0045 degree buffer, 111 km a
\* degree; deviation in metres
CheckSafeCorridor(point) ==
    LET inside == {i \in 1..Len(safe_corridors) : Distance(point, safe_corridors[i]) < 45}
        nearest == CHOOSE i \in 1..Len(safe_corridors) :
                      \A j \in 1..Len(safe_corridors) :
                          \/ Distance(point, safe_corridors[i]) < Distance(point, safe_corridors[j])
                          \/ (Distance(point, safe_corridors[i]) = Distance(point, safe_corridors[j])
                              /\ i <= j)
    IN IF inside # {}
       THEN [in_safe |-> TRUE, deviation_m |-> 0,
             name |-> safe_corridors[CHOOSE i \in inside : \A j \in inside : i <= j].name]
       ELSE [in_safe |-> FALSE,
             deviation_m |-> (Distance(point, safe_corridors[nearest]) * 111) \div 10,
             name |-> safe_corridors[nearest].name]

\* route_agent.py:168-173
CheckRiskZones(point) ==
    LET inside == {i \in 1..Len(risk_zones) :
                      /\ risk_zones[i].min_lon < point.lon /\ point.lon < risk_zones[i].max_lon
                      /\ risk_zones[i].min_lat < point.lat /\ point.lat < risk_zones[i].max_lat}
    IN IF inside # {}
       THEN [in_risk |-> TRUE,
             name |-> risk_zones[CHOOSE i \in inside : \A j \in inside : i <= j].name]
       ELSE [in_risk |-> FALSE, name |-> "null"]

\* route_agent.py:175-179, in tenths
ComputeTimeMultiplier(hour) ==
    IF InRange(hour, 22, 24) \/ InRange(hour, 0, 6) THEN 15 ELSE 10

\* route_agent.py:181-199, in thousandths
ComputeRouteRiskScore(in_safe, deviation_m, in_risk_zone, multiplier) ==
    LET off == IF ~in_safe THEN Min(deviation_m \div 10, 600) ELSE 0
        zone == IF in_risk_zone THEN 300 ELSE 0
        base_score == Min(off + zone, 1000)
    IN Min((base_score * multiplier) \div 10, 1000)

\* route_agent.py:239-259 / agent_views.py:699-704
RouteOutput(truck, point, hour) ==
    LET c == CheckSafeCorridor(point)
        z == CheckRiskZones(point)
    IN [truck |-> truck, gps |-> point,
        in_safe_corridor |-> c.in_safe, deviation_m |-> c.deviation_m,
        in_high_risk_zone |-> z.in_risk, high_risk_zone_name |-> z.name,
        route_risk_score |-> ComputeRouteRiskScore(c.in_safe, c.deviation_m, z.in_risk,
                                                   ComputeTimeMultiplier(hour)),
        time_multiplier |-> ComputeTimeMultiplier(hour),
        nearest_corridor_name |-> c.name]

(***************************************************************************)
(* DigitalTwinAgent._get_baseline, called by run for one message after     *)
(* the other, next to a store whose content changes                        *)
(***************************************************************************)
MaxBaselineCalls == 3

BaselineUnchanged ==
    /\ UNCHANGED <<fusionVars, decisionVars, behaviourVars, explainVars,
                   incidentVars, summarizerVars, httpVars, loopVars>>
    /\ UNCHANGED <<tripVars, routeVars, orderVars>>

\* somebody writes or deletes twin_baseline:{truck} in the store
StoreChanges(truck, baseline) ==
    /\ twin_store[truck] # baseline
    /\ twin_store' = [twin_store EXCEPT ![truck] = baseline]
    /\ UNCHANGED <<store_gets, baseline_log>>
    /\ UNCHANGED pipelineVars
    /\ BaselineUnchanged

\* digital_twin_agent.py:91-125: one call; connected is self.redis is not
\* None, store_ok is whether redis.get answers rather than raises
GetBaselineCall(truck, connected, store_ok) ==
    LET cached == twin_states[truck] # NoBaseline
        asked == ~cached /\ connected
        stored == IF asked /\ store_ok THEN twin_store[truck] ELSE NoBaseline
        baseline == GetBaseline(twin_states, truck, stored)
    IN /\ Len(baseline_log) < MaxBaselineCalls
       /\ twin_states' = [twin_states EXCEPT ![truck] = baseline]
       /\ store_gets' = IF asked THEN store_gets + 1 ELSE store_gets
       /\ baseline_log' = Append(baseline_log,
                                 [truck |-> truck, baseline |-> baseline,
                                  store_read |-> asked])
       /\ UNCHANGED twin_store
       /\ UNCHANGED <<clock_hour, twinOut, routeOut, agentAlerts>>
       /\ BaselineUnchanged

BaselineInit ==
    /\ now = 0
    /\ signal_buffer = [t \in Trucks |-> EmptyBuffer]
    /\ bn_model = FALSE
    /\ nextSig = 0
    /\ nextIncident = 0
    /\ lastRisk = NoRisk
    /\ riskPublished = {}
    /\ event = [op |-> "init", truck |-> NoTruck, channel |-> "none", score |-> 0,
                 fired |-> FALSE]
    /\ DecisionIdle
    /\ ExtIdle
    /\ trip_status = "Scheduled"

BaselineNext ==
    \/ \E truck \in Trucks, baseline \in StoredBaselines : StoreChanges(truck, baseline)
    \/ \E truck \in Trucks, connected \in BOOLEAN, store_ok \in BOOLEAN :
          GetBaselineCall(truck, connected, store_ok)

SpecBaseline == BaselineInit /\ [][BaselineNext]_vars

(***************************************************************************)
(* The agent bridges run one after the other (demo_pipeline.py)            *)
(***************************************************************************)
\* the truck the pipeline is run for
PipelineTruck == "TRK1"

\* telemetry of the night scenario, of a nominal truck inside a risk zone,
\* and of the night scenario far off every corridor; signal in thousandths
NightTelemetry ==
    [truck |-> PipelineTruck, gps |-> GpsOff5, door_state |-> "OPEN",
     cargo_weight_kg |-> 1500, engine_on |-> FALSE, driver_rfid_scanned |-> FALSE,
     iot_signal_strength |-> 100]
ZoneTelemetry ==
    [truck |-> PipelineTruck, gps |-> GpsZone, door_state |-> "CLOSED",
     cargo_weight_kg |-> 2000, engine_on |-> TRUE, driver_rfid_scanned |-> TRUE,
     iot_signal_strength |-> 900]
FarTelemetry == [NightTelemetry EXCEPT !.gps = GpsFar]
TelemetrySamples == {NightTelemetry, ZoneTelemetry, FarTelemetry}

\* tracks of the behaviour request: the loiterer of the night scenario, or none
NightTrack == [track_id |-> 1, raw |-> -200, dwell_seconds |-> 80, dx |-> 0, dy |-> 0]
PipelineBatches == {<<NightTrack>>, <<>>}

\* agent_views.py:338-365, 624-638, 732-750: the Alert row of an agent bridge
\* and the escalation of the trip; risk is the score in thousandths
AgentAlert(type, severity, risk) == [type |-> type, severity |-> severity, risk_score |-> risk]

\* agent_views.py:570-646 DigitalTwinView.post with a stored trip; stored is
\* what the store holds as the truck's baseline
TwinBridge(telemetry, stored) ==
    LET baseline == GetBaseline(twin_states, telemetry.truck, stored)
        out == TwinOutput(telemetry, baseline)
        alerting == out.twin_status \in {"DEGRADED", "CRITICAL"}
    IN /\ twin_states' = [twin_states EXCEPT ![telemetry.truck] = baseline]
       /\ twinOut' = out
       /\ agentAlerts' =
            IF alerting
            THEN agentAlerts \cup
                 {AgentAlert("System",
                             IF out.twin_status = "CRITICAL" THEN "Critical" ELSE "High",
                             Min(out.deviation_score, 1000))}
            ELSE agentAlerts
       /\ trip_status' = Escalate(trip_status, alerting /\ out.deviation_score >= 700)
       /\ UNCHANGED <<clock_hour, routeOut>>
       /\ UNCHANGED <<behaviourVars, auxVars>>
       /\ UNCHANGED fusionVars
       /\ UNCHANGED <<storeUp, cooldown, riskTopic, decisionAgent, pc, cur, decisionOut,
                      fired, actionLog, alerts, failures>>

\* agent_views.py:692-760 RouteView.post with a stored trip
RouteBridge(truck, point) ==
    LET out == RouteOutput(truck, point, clock_hour)
        alerting == ~out.in_safe_corridor \/ out.in_high_risk_zone
    IN /\ routeOut' = out
       /\ agentAlerts' =
            IF alerting
            THEN agentAlerts \cup
                 {AgentAlert("Route",
                             IF out.route_risk_score >= 800 THEN "Critical" ELSE "High",
                             out.route_risk_score)}
            ELSE agentAlerts
       /\ trip_status' = Escalate(trip_status, alerting /\ out.route_risk_score >= 700)
       /\ UNCHANGED <<clock_hour, twin_states, twinOut>>
       /\ UNCHANGED <<behaviourVars, auxVars>>
       /\ UNCHANGED fusionVars
       /\ UNCHANGED <<storeUp, cooldown, riskTopic, decisionAgent, pc, cur, decisionOut,
                      fired, actionLog, alerts, failures>>

\* agent_views.py:313-379 BehaviourAnalysisView.post with a stored trip
BehaviourBridge(truck, tracks, predict_ok) ==
    LET learned == behaviour_model /\ predict_ok
        out == BehaviourOutput(truck, tracks, clock_hour, learned)
    IN /\ perception' = [truck |-> truck, tracks |-> tracks, hour |-> clock_hour,
                         learned |-> learned]
       /\ behaviourOut' = out
       /\ agentAlerts' =
            IF out.is_anomaly
            THEN agentAlerts \cup
                 {AgentAlert("Behavior",
                             IF out.anomaly_score >= 800 THEN "Critical"
                             ELSE IF out.anomaly_score >= 600 THEN "High" ELSE "Medium",
                             Min(out.anomaly_score, 1000))}
            ELSE agentAlerts
       /\ trip_status' = Escalate(trip_status, out.is_anomaly /\ out.anomaly_score >= 700)
       /\ UNCHANGED behaviour_model
       /\ UNCHANGED <<clock_hour, twin_states, twinOut, routeOut>>
       /\ UNCHANGED auxVars
       /\ UNCHANGED fusionVars
       /\ UNCHANGED <<storeUp, cooldown, riskTopic, decisionAgent, pc, cur, decisionOut,
                      fired, actionLog, alerts, failures>>

\* the scores the three bridges answered are posted to /agents/risk-fusion
\* (demo_pipeline.py:335-363); the fusion reads the hour of the run
PipelineFusion ==
    /\ behaviourOut # NoBehaviour /\ twinOut # NoTwin /\ routeOut # NoRoute
    /\ BridgeRiskFusion(PipelineTruck, behaviourOut.anomaly_score,
                        twinOut.deviation_score, routeOut.route_risk_score)
    /\ lastRisk'.component_scores.temporal = GetTemporalScore(clock_hour)
    /\ lastRisk'.composite_risk_score =
          WeightedFusion(lastRisk'.component_scores,
                         [behaviour |-> 0, twin |-> 0, route |-> 0],
                         GetTemporalScore(clock_hour)).score

\* the fused score and level are posted to /agents/decision
\* (demo_pipeline.py:393-409)
PipelineDecision ==
    /\ lastRisk # NoRisk
    /\ BridgeRequest(lastRisk.truck, lastRisk.composite_risk_score, lastRisk.risk_level)

\* hours at which the pipeline is run
PipelineHours == {2, 13}

PipelineInit ==
    /\ now = 0
    /\ signal_buffer = [t \in Trucks |-> EmptyBuffer]
    /\ bn_model = FALSE
    /\ nextSig = 0
    /\ nextIncident = 0
    /\ lastRisk = NoRisk
    /\ riskPublished = {}
    /\ event = [op |-> "init", truck |-> NoTruck, channel |-> "none", score |-> 0,
                 fired |-> FALSE]
    /\ DecisionIdle
    /\ trip_status = "Scheduled"
    /\ BehaviourIdle
    /\ clock_hour \in PipelineHours
    /\ twin_states = [t \in Trucks |-> NoBaseline]
    /\ twinOut = NoTwin
    /\ routeOut = NoRoute
    /\ agentAlerts = {}
    /\ AuxIdle

PipelineNext ==
    \/ \E telemetry \in TelemetrySamples, stored \in StoredBaselines :
          TwinBridge(telemetry, stored)
    \/ \E point \in GpsSamples : RouteBridge(PipelineTruck, point)
    \/ \E tracks \in PipelineBatches : BehaviourBridge(PipelineTruck, tracks, TRUE)
    \/ PipelineFusion
    \/ PipelineDecision
    \/ CheckCooldown("bridge")
    \/ SetCooldown("bridge")
    \/ ExecuteActions("bridge")

SpecPipeline == PipelineInit /\ [][PipelineNext]_vars

(***************************************************************************)
(* ExplainabilityAgent                                                     *)
(***************************************************************************)
\* RiskOutputs published on the risk channel while the agent runs
MaxRiskMsgs == 102
\* RiskOutputs published before the agent subscribed
MaxMissed == 1

\* explainability_agent.py:234: len(self._risk_cache) > 100
risk_cache_limit == 100
\* explainability_agent.py:236: list(self._risk_cache.keys())[:10]
risk_cache_trim == 10

\* composite scores of the published RiskOutputs, by position in the stream:
\* one below every rule and one that fires R001 (the first does)
ExplainScores == <<300, 900>>

\* the id-th RiskOutput the RiskFusionAgent published
\* (risk_fusion_agent.py:347-361)
RiskMessage(id) ==
    LET score == ExplainScores[(id % Len(ExplainScores)) + 1]
    IN [incident_id |-> id, truck |-> PipelineTruck, composite_risk_score |-> score,
        risk_level |-> ClassifyRiskLevel(score), confidence |-> QualityFactor(0)]

\* the DecisionOutput the DecisionAgent publishes for a RiskOutput
\* (decision_agent.py:252-261, 174-231)
DecisionMessage(msg, suppressed) ==
    LET input == StreamRiskInput(msg)
        i == MatchRule(input.composite_risk_score)
    IN IF i = 0 THEN NoRuleDecision(input)
       ELSE IF suppressed THEN SuppressedDecision(input, RULES[i])
       ELSE FiredDecision(input, RULES[i])

\* the empty dict of self._risk_cache.get(incident_id, {})
EmptyPayload == [empty |-> TRUE]

\* dict.get(field, default)
PayloadGet(payload, field, default) ==
    IF field \in DOMAIN payload THEN payload[field] ELSE default

\* positions of the cache that hold the incident id
CacheIndex(cache, id) == {i \in 1..Len(cache) : cache[i].incident_id = id}

\* explainability_agent.py:165: self._risk_cache.get(incident_id, {})
CacheGet(cache, id) ==
    IF CacheIndex(cache, id) = {} THEN EmptyPayload
    ELSE cache[CHOOSE i \in CacheIndex(cache, id) : TRUE]

\* explainability_agent.py:232: self._risk_cache[incident_id] = payload; a
\* key already present keeps its place
CachePut(cache, payload) ==
    IF CacheIndex(cache, payload.incident_id) = {} THEN Append(cache, payload)
    ELSE [i \in 1..Len(cache) |->
            IF cache[i].incident_id = payload.incident_id THEN payload ELSE cache[i]]

\* mutant: the cache is never trimmed
TrimCache_Never(cache) == cache

\* explainability_agent.py:234-238: beyond the limit the oldest keys go
TrimCache(cache) ==
    IF Len(cache) > risk_cache_limit
    THEN SubSeq(cache, Min(risk_cache_trim, Len(cache)) + 1, Len(cache))
    ELSE cache

\* explainability_agent.py:120-138: what the template text is made of
TemplateExplanation(decision, risk_payload) ==
    [truck |-> PayloadGet(risk_payload, "truck", decision.truck),
     risk_level |-> PayloadGet(risk_payload, "risk_level", decision.risk_level),
     score |-> PayloadGet(risk_payload, "composite_risk_score", 0),
     actions_taken |-> decision.actions_taken]

\* explainability_agent.py:161-185
BuildExplanation(decision, risk_payload) ==
    [incident_id |-> decision.incident_id, truck |-> decision.truck,
     explanation_text |-> TemplateExplanation(decision, risk_payload),
     llm_model_used |-> "rule_based_template",
     confidence_noted |-> PayloadGet(risk_payload, "confidence", 0),
     risk_level |-> PayloadGet(risk_payload, "risk_level", decision.risk_level)]

\* explainability_agent.py:154-195 _handle_decision: the explanation
\* published for a decision, or the one published before when no rule fired
HandleDecision(decision, cache, previous) ==
    IF decision.rule_id = NoRule THEN previous
    ELSE BuildExplanation(decision, CacheGet(cache, decision.incident_id))

\* explainability_agent.py:205-216: run subscribes to both channels; what
\* was published before is not delivered
ExplainStart ==
    /\ ~explainRunning
    /\ explainRunning' = TRUE
    /\ UNCHANGED <<risk_cache, riskSent, decisionSent, explainOut>>
    /\ UNCHANGED <<fusionVars, decisionVars, behaviourVars, pipelineVars, incidentVars,
                    moreVars>>

\* a RiskOutput is published; explainability_agent.py:228-238 caches it
CacheRisk ==
    /\ riskSent < (IF explainRunning THEN MaxRiskMsgs ELSE MaxMissed)
    /\ riskSent' = riskSent + 1
    /\ risk_cache' = IF explainRunning
                      THEN TrimCache(CachePut(risk_cache, RiskMessage(riskSent + 1)))
                      ELSE risk_cache
    /\ UNCHANGED <<explainRunning, decisionSent, explainOut>>
    /\ UNCHANGED <<fusionVars, decisionVars, behaviourVars, pipelineVars, incidentVars,
                    moreVars>>

\* the DecisionAgent publishes its answer to the oldest unanswered
\* RiskOutput; explainability_agent.py:240-242 hands it to _handle_decision
ExplainDecision(suppressed) ==
    /\ decisionSent < riskSent
    /\ decisionSent' = decisionSent + 1
    /\ explainOut' =
          IF explainRunning
          THEN HandleDecision(DecisionMessage(RiskMessage(decisionSent + 1), suppressed),
                              risk_cache, explainOut)
          ELSE explainOut
    /\ UNCHANGED <<explainRunning, risk_cache, riskSent>>
    /\ UNCHANGED <<fusionVars, decisionVars, behaviourVars, pipelineVars, incidentVars,
                    moreVars>>

ExplainInit == FusionInit /\ bn_model = FALSE

ExplainNext ==
    \/ ExplainStart
    \/ CacheRisk
    \/ \E suppressed \in BOOLEAN : ExplainDecision(suppressed)

SpecExplain == ExplainInit /\ [][ExplainNext]_vars

(***************************************************************************)
(* ExplainabilityAgent: the summarizer                                     *)
(***************************************************************************)
\* RiskOutputs published while the summarizer is explored
MaxSummarized == 3

\* values of LLM_PROVIDER
Providers == {"template", "openai", "ollama"}

\* what a call of the remote or local summarizer does: it answers, or it
\* raises (timeout, connection error, HTTP error body without "response",
\* missing openai package)
CallOutcomes == {"answer", "raises"}

\* explainability_agent.py:62-99: the fields the prompt is made of
BuildPrompt(decision, risk_payload) ==
    [truck |-> PayloadGet(risk_payload, "truck", decision.truck),
     risk_level |-> PayloadGet(risk_payload, "risk_level", decision.risk_level),
     score |-> PayloadGet(risk_payload, "composite_risk_score", 0),
     confidence |-> PayloadGet(risk_payload, "confidence", 0),
     rule_name |-> decision.rule_name,
     actions_taken |-> decision.actions_taken]

\* the text a summarizer answers to a prompt
RemoteExplanation(model, prompt) == [model |-> model, prompt |-> prompt]

\* explainability_agent.py:101-118: _call_openai / _call_ollama
CallSummarizer(model, prompt, outcome) ==
    IF outcome = "answer"
    THEN [raised |-> FALSE, text |-> RemoteExplanation(model, prompt), model |-> model]
    ELSE [raised |-> TRUE]

\* mutant: a failed call is answered with the failure, not with the template
GenerateExplanation_NoFallback(decision, risk_payload, provider, has_key, outcome) ==
    LET prompt == BuildPrompt(decision, risk_payload)
        template == [text |-> TemplateExplanation(decision, risk_payload),
                     model |-> "rule_based_template"]
        remote(model) ==
            LET answer == CallSummarizer(model, prompt, outcome)
            IN IF answer.raised
               THEN [text |-> RemoteExplanation(model, prompt), model |-> model,
                     calls |-> 1, failed |-> TRUE]
               ELSE [text |-> answer.text, model |-> answer.model,
                     calls |-> 1, failed |-> FALSE]
    IN IF provider = "openai" /\ has_key THEN remote("gpt-4o-mini")
       ELSE IF provider = "ollama" THEN remote("llama3")
       ELSE template @@ [calls |-> 0, failed |-> FALSE]

\* explainability_agent.py:140-152 _generate_explanation: one call of the
\* configured summarizer, the template when it raises or none is configured
GenerateExplanation(decision, risk_payload, provider, has_key, outcome) ==
    LET prompt == BuildPrompt(decision, risk_payload)
        template == [text |-> TemplateExplanation(decision, risk_payload),
                     model |-> "rule_based_template"]
        remote(model) ==
            LET answer == CallSummarizer(model, prompt, outcome)
            IN IF answer.raised
               THEN template @@ [calls |-> 1, failed |-> TRUE]
               ELSE [text |-> answer.text, model |-> answer.model,
                     calls |-> 1, failed |-> FALSE]
    IN IF provider = "openai" /\ has_key THEN remote("gpt-4o-mini")
       ELSE IF provider = "ollama" THEN remote("llama3")
       ELSE template @@ [calls |-> 0, failed |-> FALSE]

\* explainability_agent.py:161-185 with the generated text
BuildExplanationFrom(decision, risk_payload, generated) ==
    [BuildExplanation(decision, risk_payload) EXCEPT
        !.explanation_text = generated.text,
        !.llm_model_used = generated.model]

\* a RiskOutput is published and cached (explainability_agent.py:228-238)
SummarizerRisk ==
    /\ riskSent < MaxSummarized
    /\ CacheRisk

\* explainability_agent.py:240-242 and 154-195: a DecisionOutput arrives and
\* _handle_decision explains it through the configured summarizer
SummarizeDecision(suppressed, outcome) ==
    /\ explainRunning
    /\ decisionSent < riskSent
    /\ decisionSent' = decisionSent + 1
    /\ LET decision == DecisionMessage(RiskMessage(decisionSent + 1), suppressed)
           risk_payload == CacheGet(risk_cache, decision.incident_id)
           generated == GenerateExplanation(decision, risk_payload, llm_provider,
                                            openai_key, outcome)
       IN IF decision.rule_id = NoRule
          THEN UNCHANGED <<explainOut, llm_call>>
          ELSE /\ explainOut' = BuildExplanationFrom(decision, risk_payload, generated)
               /\ llm_call' = [incident_id |-> decision.incident_id,
                                calls |-> generated.calls, failed |-> generated.failed]
    /\ UNCHANGED <<explainRunning, risk_cache, riskSent, llm_provider, openai_key>>
    /\ UNCHANGED <<fusionVars, decisionVars, behaviourVars, pipelineVars, incidentVars,
                    httpVars, loopVars, lateVars>>

\* the agent is configured from the environment (explainability_agent.py:38-41)
SummarizerInit ==
    /\ now = 0
    /\ signal_buffer = [t \in Trucks |-> EmptyBuffer]
    /\ bn_model = FALSE
    /\ nextSig = 0
    /\ nextIncident = 0
    /\ lastRisk = NoRisk
    /\ riskPublished = {}
    /\ event = [op |-> "init", truck |-> NoTruck, channel |-> "none", score |-> 0,
                 fired |-> FALSE]
    /\ DecisionIdle
    /\ trip_status = "Scheduled"
    /\ BehaviourIdle
    /\ PipelineIdle
    /\ ExplainIdle
    /\ IncidentIdle
    /\ llm_provider \in Providers
    /\ openai_key \in BOOLEAN
    /\ llm_call = NoCall
    /\ HttpIdle
    /\ LoopIdle
    /\ LateIdle

SummarizerNext ==
    \/ ExplainStart
    \/ SummarizerRisk
    \/ \E suppressed \in BOOLEAN, outcome \in CallOutcomes :
          SummarizeDecision(suppressed, outcome)

SpecSummarizer == SummarizerInit /\ [][SummarizerNext]_vars

(***************************************************************************)
(* The agent bridge views: request validation                              *)
(***************************************************************************)
\* frames the perception bridge publishes
MaxFrames == 1

\* request.data.get('trip_id'): absent, a string that is no UUID, the UUID of
\* no stored trip, the UUID of the stored trip
TripIds == {"missing", "malformed", "unknown", "stored"}

\* models.py:164-166 and agent_views.py:130: Trip.objects.get(trip_id=...) on
\* the UUID primary key
TripLookup(trip_id) ==
    CASE trip_id = "stored" -> "found"
      [] trip_id = "unknown" -> "DoesNotExist"
      [] OTHER -> "ValidationError"

\* agent_views.py:124-132 (and the same lines of every bridge view): the
\* status of the trip check, 200 when the view goes on
TripCheck(trip_id) ==
    IF trip_id = "missing" THEN 400
    ELSE CASE TripLookup(trip_id) = "found" -> 200
           [] TripLookup(trip_id) = "DoesNotExist" -> 404
           [] OTHER -> 500

\* JSON values of composite_risk_score: numbers in thousandths, a numeric
\* and a non-numeric string, true, null
ScoreValues ==
    {[kind |-> "number", value |-> v] : v \in {-100, 900, 1500}}
      \cup {[kind |-> "numeric_text", value |-> 900], [kind |-> "text", value |-> 0],
            [kind |-> "true", value |-> 1], [kind |-> "null", value |-> 0]}

\* agent_views.py:237: float(request.data.get('composite_risk_score', 0.0))
Float(v) ==
    CASE v.kind \in {"number", "numeric_text"} -> [raised |-> FALSE, value |-> v.value]
      [] v.kind = "true" -> [raised |-> FALSE, value |-> 1000]
      [] OTHER -> [raised |-> TRUE, value |-> 0]

\* flaws of a request body next to its trip_id
BodyFlaws == {"none", "no_frame", "bad_frame_id", "tracks_not_list"}

\* agent_views.py:119-132 PerceptionView.post up to the trip lookup
PerceptionCheck(trip_id, flaw) ==
    IF flaw = "bad_frame_id" THEN 500
    ELSE IF trip_id = "missing" THEN 400
    ELSE IF flaw = "no_frame" THEN 400
    ELSE TripCheck(trip_id)

\* agent_views.py:314-326 BehaviourAnalysisView.post up to the trip lookup
BehaviourCheck(trip_id, flaw) ==
    IF trip_id = "missing" THEN 400
    ELSE IF flaw = "tracks_not_list" THEN 400
    ELSE TripCheck(trip_id)

\* agent_views.py:223-250 DecisionView.post up to the range check
DecisionCheck(trip_id, score) ==
    IF TripCheck(trip_id) # 200 THEN TripCheck(trip_id)
    ELSE IF Float(score).raised THEN 400
    ELSE IF ~(0 <= Float(score).value /\ Float(score).value <= 1000) THEN 400
    ELSE 200

\* the view returns the error response and touches nothing else
Reject(status) ==
    /\ httpRejected' = status
    /\ UNCHANGED <<ai_explanation, framesPublished>>
    /\ UNCHANGED <<fusionVars, decisionVars, behaviourVars, pipelineVars, explainVars,
                    incidentVars, summarizerVars, loopVars, lateVars>>

\* confidence of the best person track YOLO reports, in thousandths; 0 when
\* the frame shows nobody
PersonConfidences == {0, 900}

\* agent_views.py:141-202: the frame is tracked, the PerceptionOutput is
\* published and a Vision alert is stored when a person is seen; risk in
\* tenths of a point, as in every Alert row
PerceptionBridge(confidence) ==
    LET risk == Min(300 + confidence \div 2, 1000)
        severity == IF risk >= 800 THEN "Critical"
                    ELSE IF risk >= 600 THEN "High" ELSE "Medium"
    IN /\ framesPublished < MaxFrames
       /\ framesPublished' = framesPublished + 1
       /\ agentAlerts' = IF confidence > 0
                         THEN agentAlerts \cup {AgentAlert("Vision", severity, risk)}
                         ELSE agentAlerts
       /\ UNCHANGED <<clock_hour, twin_states, twinOut, routeOut>>
       /\ UNCHANGED <<httpRejected, ai_explanation>>
       /\ UNCHANGED <<fusionVars, decisionVars, behaviourVars, explainVars, incidentVars,
                       summarizerVars, loopVars, lateVars>>

\* agent_views.py:911-938: the explanation is generated and saved to the
\* latest Alert row of the trip, when there is one
ExplainBridge(risk_payload, outcome) ==
    LET decision == DecisionMessage(RiskMessage(1), FALSE)
        generated == GenerateExplanation(decision, risk_payload, llm_provider,
                                         openai_key, outcome)
    IN /\ ai_explanation' = IF alerts # {} \/ agentAlerts # {}
                            THEN [model |-> generated.model, text |-> generated.text]
                            ELSE ai_explanation
       /\ llm_call' = [incident_id |-> decision.incident_id, calls |-> generated.calls,
                        failed |-> generated.failed]
       /\ UNCHANGED <<httpRejected, framesPublished, llm_provider, openai_key>>
       /\ UNCHANGED <<fusionVars, decisionVars, behaviourVars, pipelineVars, explainVars,
                       incidentVars, loopVars, lateVars>>

\* POST /agents/perception/
PerceptionPost(trip_id, flaw) ==
    IF PerceptionCheck(trip_id, flaw) # 200
    THEN Reject(PerceptionCheck(trip_id, flaw))
    ELSE \E confidence \in PersonConfidences : PerceptionBridge(confidence)

\* POST /agents/behaviour-analysis/
BehaviourPost(trip_id, flaw) ==
    IF BehaviourCheck(trip_id, flaw) # 200
    THEN Reject(BehaviourCheck(trip_id, flaw))
    ELSE BehaviourBridge(PipelineTruck, <<NightTrack>>, TRUE)

\* POST /agents/digital-twin/
TwinPost(trip_id) ==
    IF TripCheck(trip_id) # 200
    THEN Reject(TripCheck(trip_id))
    ELSE TwinBridge(NightTelemetry, NoBaseline)

\* POST /agents/route/
RoutePost(trip_id) ==
    IF TripCheck(trip_id) # 200
    THEN Reject(TripCheck(trip_id))
    ELSE RouteBridge(PipelineTruck, GpsOff5)

\* POST /agents/risk-fusion/
FusionPost(trip_id) ==
    IF TripCheck(trip_id) # 200
    THEN Reject(TripCheck(trip_id))
    ELSE BridgeRiskFusion(PipelineTruck, 900, 850, 800)

\* POST /agents/decision/
DecisionPost(trip_id, score) ==
    IF DecisionCheck(trip_id, score) # 200
    THEN Reject(DecisionCheck(trip_id, score))
    ELSE BridgeRequest(PipelineTruck, Float(score).value, "UNKNOWN")

\* POST /agents/explain/
ExplainPost(trip_id) ==
    IF TripCheck(trip_id) # 200
    THEN Reject(TripCheck(trip_id))
    ELSE \E risk_payload \in {RiskMessage(1), EmptyPayload}, outcome \in CallOutcomes :
            ExplainBridge(risk_payload, outcome)

HttpInit ==
    /\ now = 0
    /\ signal_buffer = [t \in Trucks |-> EmptyBuffer]
    /\ bn_model = FALSE
    /\ nextSig = 0
    /\ nextIncident = 0
    /\ lastRisk = NoRisk
    /\ riskPublished = {}
    /\ event = [op |-> "init", truck |-> NoTruck, channel |-> "none", score |-> 0,
                 fired |-> FALSE]
    /\ DecisionIdle
    /\ ExtIdle
    /\ trip_status = "Scheduled"

HttpNext ==
    \/ \E trip_id \in TripIds, flaw \in BodyFlaws \ {"tracks_not_list"} :
          PerceptionPost(trip_id, flaw)
    \/ \E trip_id \in TripIds, flaw \in {"none", "tracks_not_list"} :
          BehaviourPost(trip_id, flaw)
    \/ \E trip_id \in TripIds : TwinPost(trip_id)
    \/ \E trip_id \in TripIds : RoutePost(trip_id)
    \/ \E trip_id \in TripIds : FusionPost(trip_id)
    \/ \E trip_id \in TripIds, score \in ScoreValues : DecisionPost(trip_id, score)
    \/ \E trip_id \in TripIds : ExplainPost(trip_id)
    \/ CheckCooldown("bridge")
    \/ SetCooldown("bridge")
    \/ ExecuteActions("bridge")

SpecHttp == HttpInit /\ [][HttpNext]_vars

-----------------------------------------------------------------------------
\* The demo endpoints of agent_views.py that write Trip.status themselves:
\* POST /agents/simulate/, POST /agents/vision-event/, GET /agents/fusion-risk/

MaxInjected == 2

EventTypes == {"Person Detected", "Vehicle Detected"}

EventConfidences == {500, 900}

RECURSIVE SumRisk(_)
\* sum(a.risk_score for a in recent_alerts), in tenths of a point
SumRisk(rows) ==
    IF rows = {} THEN 0
    ELSE LET r == CHOOSE x \in rows : TRUE
         IN r.risk_score + SumRisk(rows \ {r})

\* agent_views.py:400-402: 40 for a person, 20 otherwise, 10 more above 0.8
VisionEventRisk(event_type, confidence) ==
    (IF event_type = "Person Detected" THEN 400 ELSE 200)
      + (IF confidence > 800 THEN 100 ELSE 0)

\* the three rows of the demo scenario: 35.0 + 45.0 + 80.0
SimulatedRisk == 350 + 450 + 800

DemoUnchanged ==
    /\ UNCHANGED fusionVars
    /\ UNCHANGED <<storeUp, cooldown, riskTopic, decisionAgent, pc, cur, decisionOut,
                   fired, actionLog, alerts, failures>>
    /\ UNCHANGED <<behaviourVars, pipelineVars, explainVars, incidentVars,
                   summarizerVars, httpVars, loopVars>>
    /\ UNCHANGED <<routeVars, orderVars, baselineVars>>

\* POST /agents/vision-event/ for a stored trip: one Vision row, trip untouched
VisionEventPost(event_type, confidence) ==
    /\ injected < MaxInjected
    /\ injected' = injected + 1
    /\ injected_points' = injected_points + VisionEventRisk(event_type, confidence)
    /\ UNCHANGED trip_status
    /\ DemoUnchanged

\* POST /agents/simulate/ for a stored trip: three rows, then
\* trip.status = 'Alert'; trip.save()
SimulatePost ==
    /\ injected < MaxInjected
    /\ injected' = injected + 1
    /\ injected_points' = injected_points + SimulatedRisk
    /\ trip_status' = "Alert"
    /\ DemoUnchanged

\* GET /agents/fusion-risk/ for a stored trip: the rows of every endpoint are
\* summed, capped at 100, and 70 or more writes trip.status = 'Alert'
FusionRiskGet ==
    LET base_risk == injected_points + SumRisk(alerts) + SumRisk(agentAlerts)
        final_risk == Min(1000, base_risk)
    IN /\ trip_status' = IF final_risk >= 700 THEN "Alert" ELSE trip_status
       /\ trip_status' # trip_status
       /\ UNCHANGED tripVars
       /\ DemoUnchanged

TripCompletedInit ==
    /\ now = 0
    /\ signal_buffer = [t \in Trucks |-> EmptyBuffer]
    /\ bn_model = FALSE
    /\ nextSig = 0
    /\ nextIncident = 0
    /\ lastRisk = NoRisk
    /\ riskPublished = {}
    /\ event = [op |-> "init", truck |-> NoTruck, channel |-> "none", score |-> 0,
                 fired |-> FALSE]
    /\ DecisionIdle
    /\ ExtIdle
    /\ trip_status \in {"In-Transit", "Completed"}

\* every /agents/ endpoint that can write Trip.status, for a stored trip; each
\* agent bridge is asked once, so no two Alert rows are equal in every field
TripCompletedNext ==
    \/ framesPublished = 0 /\ PerceptionPost("stored", "none")
    \/ behaviourOut = NoBehaviour /\ BehaviourPost("stored", "none")
    \/ twinOut = NoTwin /\ TwinPost("stored")
    \/ routeOut = NoRoute /\ RoutePost("stored")
    \/ FusionPost("stored")
    \/ DecisionPost("stored", [kind |-> "number", value |-> 900])
    \/ CheckCooldown("bridge")
    \/ SetCooldown("bridge")
    \/ ExecuteActions("bridge")
    \/ \E event_type \in EventTypes, confidence \in EventConfidences :
          VisionEventPost(event_type, confidence)
    \/ SimulatePost
    \/ FusionRiskGet

SpecTripCompleted == TripCompletedInit /\ [][TripCompletedNext]_vars

-----------------------------------------------------------------------------
\* RouteAgent.run: the subscriber of rakshak.twin.output

MaxTwinMsgs == 2

\* positions on the equator and on the Greenwich meridian
GpsEquator == [lat |-> 0, lon |-> 772090]
GpsGreenwich == [lat |-> 286139, lon |-> 0]

\* a message carrying every field, for one position and hour
TwinMessage(gps, hour) ==
    [truck |-> PipelineTruck, has_gps |-> TRUE, gps |-> gps, has_timestamp |-> TRUE,
     hour |-> hour]

\* the payloads on the channel: complete ones, and ones lacking a field
TwinMessages ==
    {TwinMessage(gps, 13) : gps \in {GpsOff5, GpsEquator, GpsGreenwich}}
      \cup {[TwinMessage(GpsOff5, 13) EXCEPT !.truck = NoTruck],
            [TwinMessage(GpsOff5, 13) EXCEPT !.has_gps = FALSE],
            [TwinMessage(GpsOff5, 13) EXCEPT !.has_timestamp = FALSE]}

\* route_agent.py:224-230: all([truck_id, gps_lat, gps_lon, timestamp]); None,
\* an empty string and the number 0 are false
AllPresent(msg) ==
    /\ msg.truck # NoTruck
    /\ msg.has_gps /\ msg.gps.lat # 0 /\ msg.gps.lon # 0
    /\ msg.has_timestamp

\* the digital twin (or any publisher) puts a message on rakshak.twin.output
TwinPublish(msg) ==
    /\ Len(twin_topic) < MaxTwinMsgs
    /\ twin_topic' = Append(twin_topic, msg)
    /\ UNCHANGED <<route_handled, route_published, route_status>>
    /\ UNCHANGED <<fusionVars, decisionVars, behaviourVars, pipelineVars, explainVars,
                   incidentVars, summarizerVars, httpVars, loopVars>>
    /\ UNCHANGED <<tripVars, orderVars, baselineVars>>

\* route_agent.py:219-273: one pass of the loop with a message
RouteReceive ==
    /\ route_handled < Len(twin_topic)
    /\ route_handled' = route_handled + 1
    /\ LET msg == twin_topic[route_handled + 1]
           route_output == RouteOutput(msg.truck, msg.gps, msg.hour)
       IN IF ~AllPresent(msg)
          THEN UNCHANGED <<route_published, route_status>>
          ELSE /\ route_published' = Append(route_published,
                                            [src |-> route_handled + 1,
                                             truck |-> route_output.truck])
               /\ route_status' = route_output
    /\ UNCHANGED twin_topic
    /\ UNCHANGED <<fusionVars, decisionVars, behaviourVars, pipelineVars, explainVars,
                   incidentVars, summarizerVars, httpVars, loopVars>>
    /\ UNCHANGED <<tripVars, orderVars, baselineVars>>

RouteStreamInit ==
    /\ now = 0
    /\ signal_buffer = [t \in Trucks |-> EmptyBuffer]
    /\ bn_model = FALSE
    /\ nextSig = 0
    /\ nextIncident = 0
    /\ lastRisk = NoRisk
    /\ riskPublished = {}
    /\ event = [op |-> "init", truck |-> NoTruck, channel |-> "none", score |-> 0,
                 fired |-> FALSE]
    /\ DecisionIdle
    /\ ExtIdle
    /\ trip_status = "Scheduled"

RouteStreamNext ==
    \/ \E msg \in TwinMessages : TwinPublish(msg)
    \/ RouteReceive

SpecRouteStream == RouteStreamInit /\ [][RouteStreamNext]_vars

-----------------------------------------------------------------------------
\* ExplainabilityAgent.run hands every decision to a task of its own
\* (asyncio.create_task) and goes back to its subscription; the tasks run
\* _handle_decision and are suspended at each await

MaxDecisions == 3

OrderUnchanged ==
    /\ UNCHANGED <<fusionVars, decisionVars, behaviourVars, pipelineVars, explainVars,
                   incidentVars, summarizerVars, httpVars, loopVars>>
    /\ UNCHANGED <<tripVars, routeVars, baselineVars>>

\* explainability_agent.py:240-242 and 156-168: the decision is received, its
\* task is created and runs up to the await of the summarizer; a decision
\* without a rule ends its task at once
DecisionReceived(rule_fired) ==
    LET incident_id == Len(decisions_received) + 1
    IN /\ Len(decisions_received) < MaxDecisions
       /\ decisions_received' = Append(decisions_received, incident_id)
       /\ explain_tasks' = IF rule_fired
                           THEN explain_tasks \cup {[incident_id |-> incident_id,
                                                     at |-> "generate"]}
                           ELSE explain_tasks
       /\ UNCHANGED explain_published
       /\ OrderUnchanged

\* explainability_agent.py:168-189: the summarizer of one task answers (or
\* fails and the template is used); the task goes on to the await of setex
SummarizerReturns(task, outcome) ==
    /\ task \in explain_tasks /\ task.at = "generate"
    /\ explain_tasks' = (explain_tasks \ {task})
                          \cup {[incident_id |-> task.incident_id,
                                at |-> IF outcome = "answer" THEN "setex_remote"
                                       ELSE "setex_template"]}
    /\ UNCHANGED <<decisions_received, explain_published>>
    /\ OrderUnchanged

\* explainability_agent.py:189-195: setex has answered; the task publishes
\* its ExplanationOutput and ends
PublishExplanation(task) ==
    /\ task \in explain_tasks /\ task.at \in {"setex_remote", "setex_template"}
    /\ explain_tasks' = explain_tasks \ {task}
    /\ explain_published' =
         Append(explain_published,
                [incident_id |-> task.incident_id,
                 llm_model_used |-> IF task.at = "setex_remote" THEN "remote"
                                    ELSE "rule_based_template"])
    /\ UNCHANGED decisions_received
    /\ OrderUnchanged

ExplainOrderInit == RouteStreamInit

ExplainOrderNext ==
    \/ \E rule_fired \in BOOLEAN : DecisionReceived(rule_fired)
    \/ \E task \in explain_tasks, outcome \in CallOutcomes :
          SummarizerReturns(task, outcome)
    \/ \E task \in explain_tasks : PublishExplanation(task)

SpecExplainOrder == ExplainOrderInit /\ [][ExplainOrderNext]_vars

(***************************************************************************)
(* DecisionAgent: the run loop and stop                                    *)
(***************************************************************************)
\* scores of the risk messages the loop is fed: one no rule matches, one of R001
LoopScores == {300, 900}

\* the variables of the other agents and of the bridge views
LoopFrame ==
    /\ UNCHANGED <<behaviourVars, pipelineVars, explainVars, incidentVars,
                    summarizerVars, httpVars, lateVars>>

\* a RiskOutput is put on rakshak.risk.output
LoopPublishRisk(truck, score) ==
    /\ PublishRisk(truck, score)
    /\ UNCHANGED loopVars

\* decision_agent.py:246-258: while self.running, get_message returns a
\* message and its evaluation begins
LoopReceive ==
    /\ running
    /\ loopPc = "looping"
    /\ StreamReceive
    /\ UNCHANGED loopVars

\* decision_agent.py:184-217, 260-264: the evaluation under way goes on to
\* its next store command, or ends and its DecisionOutput is published
LoopEvaluate ==
    /\ loopPc = "looping"
    /\ ~conn_cut
    /\ \/ CheckCooldown("stream")
       \/ SetCooldown("stream")
       \/ ExecuteActions("stream")
    /\ UNCHANGED loopVars

\* decision_agent.py:95-100 stop, called while run is suspended: running is
\* cleared and redis.close() disconnects the pool, the connection of the
\* command run is awaiting included
Stop ==
    /\ running
    /\ loopPc = "looping"
    /\ running' = FALSE
    /\ conn_cut' = (pc["stream"] # "idle")
    /\ inflight_at_stop' =
          IF pc["stream"] # "idle" THEN cur["stream"].input.incident_id ELSE 0
    /\ UNCHANGED loopPc
    /\ UNCHANGED <<fusionVars, decisionVars>>
    /\ LoopFrame

\* the client re-sends the interrupted command on a new connection (a
\* redis-py whose default Retry retries): the evaluation goes on
CommandRetried ==
    /\ conn_cut
    /\ conn_cut' = FALSE
    /\ UNCHANGED <<running, loopPc, inflight_at_stop>>
    /\ UNCHANGED <<fusionVars, decisionVars>>
    /\ LoopFrame

\* the interrupted command raises ConnectionError (a redis-py whose default
\* Retry does not retry); decision_agent.py:286-288 logs it and the message
\* is given up
CommandFails ==
    /\ conn_cut
    /\ conn_cut' = FALSE
    /\ Raise("stream")
    /\ UNCHANGED <<running, loopPc, inflight_at_stop>>
    /\ UNCHANGED fusionVars
    /\ UNCHANGED <<storeUp, cooldown, riskTopic, decisionAgent, decisionOut, fired,
                    actionLog, alerts, trip_status>>
    /\ LoopFrame

\* decision_agent.py:246 and 292-293: running is false, the loop ends and
\* the finally block unsubscribes; unsubscribe reconnects, and raises out of
\* run when Redis does not answer
LoopExit ==
    /\ ~running
    /\ loopPc = "looping"
    /\ pc["stream"] = "idle"
    /\ loopPc' = IF storeUp THEN "exited" ELSE "raised"
    /\ UNCHANGED <<running, conn_cut, inflight_at_stop>>
    /\ UNCHANGED <<fusionVars, decisionVars>>
    /\ LoopFrame

\* a store command of the evaluation raises while Redis is unreachable
LoopEvaluateFails ==
    /\ loopPc = "looping"
    /\ ~conn_cut
    /\ \/ CheckCooldownFail("stream")
       \/ SetCooldownFail("stream")
       \/ ExecuteActionsFail("stream")
    /\ UNCHANGED loopVars

\* the Redis server stops answering
LoopStoreFail ==
    /\ loopPc = "looping"
    /\ StoreFail
    /\ UNCHANGED loopVars

\* what the run task does on its own
LoopProgress ==
    \/ LoopEvaluate
    \/ LoopEvaluateFails
    \/ CommandRetried
    \/ CommandFails
    \/ LoopExit

LoopNext ==
    \/ \E truck \in Trucks, score \in LoopScores : LoopPublishRisk(truck, score)
    \/ LoopReceive
    \/ LoopEvaluate
    \/ LoopEvaluateFails
    \/ LoopStoreFail
    \/ Stop
    \/ CommandRetried
    \/ CommandFails
    \/ LoopExit

\* the event loop runs the task whenever it can go on: every store command
\* answers or raises, and get_message returns after its timeout of 1 s
SpecRunLoop == DecisionInit /\ [][LoopNext]_vars /\ WF_vars(LoopProgress)

(***************************************************************************)
(* DecisionAgent._log_incident on the list incidents:{truck}               *)
(***************************************************************************)
\* incidents logged for the truck
MaxLogged == 53

\* decision_agent.py:126: ltrim(key, 0, 49)
ltrim_stop == 49

\* Redis LPUSH: the value becomes the head of the list
LPush(list, value) == <<value>> \o list

\* mutant: the list is never trimmed
LTrim_None(list, start, stop) == list

\* Redis LTRIM: the elements at the zero-based positions start..stop stay
LTrim(list, start, stop) == SubSeq(list, start + 1, Min(stop + 1, Len(list)))

\* evaluations that pushed their incident and have not trimmed yet
PendingTrim == {e \in Evaluators : logPc[e] = "pushed"}

\* decision_agent.py:125: await self.redis.lpush(...); the incident is the
\* nextLogged+1-th logged for the truck; event.score is the length found
LogPush(e) ==
    /\ logPc[e] = "idle"
    /\ nextLogged < MaxLogged
    /\ incident_list' = LPush(incident_list, nextLogged + 1)
    /\ nextLogged' = nextLogged + 1
    /\ logPc' = [logPc EXCEPT ![e] = "pushed"]
    /\ event' = [op |-> "lpush", truck |-> PipelineTruck, channel |-> e,
                  score |-> Len(incident_list), fired |-> FALSE]
    /\ UNCHANGED <<now, signal_buffer, bn_model, nextSig, nextIncident, lastRisk,
                    riskPublished>>
    /\ UNCHANGED <<decisionVars, behaviourVars, pipelineVars, explainVars, moreVars>>

\* decision_agent.py:126: await self.redis.ltrim(..., 0, 49)
LogTrim(e) ==
    /\ logPc[e] = "pushed"
    /\ incident_list' = LTrim(incident_list, 0, ltrim_stop)
    /\ logPc' = [logPc EXCEPT ![e] = "idle"]
    /\ event' = [op |-> "ltrim", truck |-> PipelineTruck, channel |-> e,
                  score |-> Len(incident_list), fired |-> FALSE]
    /\ UNCHANGED nextLogged
    /\ UNCHANGED <<now, signal_buffer, bn_model, nextSig, nextIncident, lastRisk,
                    riskPublished>>
    /\ UNCHANGED <<decisionVars, behaviourVars, pipelineVars, explainVars, moreVars>>

IncidentInit == FusionInit /\ bn_model = FALSE

IncidentNext == \E e \in Evaluators : LogPush(e) \/ LogTrim(e)

SpecIncidents == IncidentInit /\ [][IncidentNext]_vars

(***************************************************************************)
(* Properties of the RiskFusionAgent                                       *)
(***************************************************************************)
\* the step is the processing of one bus signal
ReceivedSignal == nextSig' # nextSig
\* the step published a RiskOutput
PublishedRisk == riskPublished' # riskPublished

TwinIsStale(t) ==
    /\ "twin" \in DOMAIN signal_buffer[t]
    /\ now - signal_buffer[t]["twin"].received_at > 10

\* C5: while the buffered twin signal of truck t is older than 10 s, a fresh
\* behaviour or route signal publishes nothing for t and leaves the stale twin
\* entry in the buffer; a RiskOutput for t is published only by the step that
\* stores a new twin signal, and only if the buffered behaviour and route
\* signals are then still within the 10 s window.
C5_StaleTwinBlocksFusion ==
    [][\A t \in Trucks : TwinIsStale(t) =>
          IF ReceivedSignal /\ event'.truck = t /\ event'.channel = "twin"
          THEN (PublishedRisk =>
                   \A c \in {"behaviour", "route"} :
                       /\ c \in DOMAIN signal_buffer[t]
                       /\ now - signal_buffer[t][c].received_at <= 10)
          ELSE /\ ~(PublishedRisk /\ lastRisk'.truck = t)
               /\ "twin" \in DOMAIN signal_buffer'[t]
               /\ signal_buffer'[t]["twin"] = signal_buffer[t]["twin"]
       ]_vars

\* behaviour and route are fresh, the twin signal is 11 s old: the last message
\* completed the three slots and nothing was published
C5_Witness ==
    /\ event.op = "recv" /\ event.channel # "twin" /\ ~event.fired
    /\ LET buf == signal_buffer[event.truck]
       IN /\ DOMAIN buf = Channels
          /\ now - buf["twin"].received_at > 10
          /\ now - buf["behaviour"].received_at <= 10
          /\ now - buf["route"].received_at <= 10

InUnit(x) == 0 <= x /\ x <= 1000

\* C10: every RiskOutput has its composite score, its confidence and each
\* component score within [0,1].
C10_ScoresInUnitInterval ==
    lastRisk # NoRisk =>
        /\ InUnit(lastRisk.composite_risk_score)
        /\ InUnit(lastRisk.confidence)
        /\ \A k \in DOMAIN lastRisk.component_scores : InUnit(lastRisk.component_scores[k])

(***************************************************************************)
(* Properties of the DecisionAgent                                         *)
(***************************************************************************)
\* the cooldown the rule table of the specification gives each rule, in seconds
ClaimedCooldown(rule_id) ==
    CASE rule_id = "R001" -> 300 [] rule_id = "R002" -> 600 [] rule_id = "R003" -> 1800

\* C2: any two fired decisions for the same truck and rule are at least the
\* rule's cooldown apart (300 s, 600 s, 1800 s); the store is never cleared here.
C2_FiredDecisionsSpaced ==
    \A k \in DOMAIN fired :
        Len(fired[k]) = 2 => fired[k][2] - fired[k][1] >= ClaimedCooldown(k[2])

\* the evaluation of e has found no cooldown key and goes on to fire
PastCheck(e) == pc[e] \in {"set", "act"}

\* C3: the cooldown check and set act as one atomic check-and-set: of two
\* concurrent evaluations for the same truck and rule, started while no key
\* exists, at most one gets past the check and fires.
C3_AtMostOneFires ==
    \A e1, e2 \in Evaluators :
        (e1 # e2 /\ PastCheck(e1) /\ PastCheck(e2))
            => ~(cur[e1].truck = cur[e2].truck /\ cur[e1].rule = cur[e2].rule)

\* C4: the decision names R001 for s >= 0.85, R002 for 0.65 <= s < 0.85, R003
\* for 0.45 <= s < 0.65 and no rule (not suppressed, no actions) for s < 0.45;
\* the rule named is the only rule whose condition holds for s.
C4_RuleMatchesScore ==
    decisionOut # NoDecision =>
        LET s == decisionOut.risk_score
            r == decisionOut.rule_id
        IN /\ s >= 850 => r = "R001"
           /\ (650 <= s /\ s < 850) => r = "R002"
           /\ (450 <= s /\ s < 650) => r = "R003"
           /\ s < 450 => /\ r = NoRule
                         /\ ~decisionOut.alert_suppressed
                         /\ decisionOut.actions_taken = <<>>
           /\ {x \in RuleIds : RuleCondition(x, s)} = (IF r = NoRule THEN {} ELSE {r})

\* a decision at the boundary score 0.85 fired R001
C4_Witness ==
    /\ decisionOut # NoDecision
    /\ decisionOut.risk_score = 850 /\ decisionOut.rule_id = "R001"
    /\ ~decisionOut.alert_suppressed

\* C7 as claimed: every DecisionOutput, streamed or returned by the bridge,
\* carries the incident id of a RiskOutput published earlier.
C7_DecisionHasRiskOutput ==
    decisionOut # NoDecision => decisionOut.incident_id \in riskPublished

\* C7 as amended: every DecisionOutput the streaming DecisionAgent publishes
\* carries the incident id of a RiskOutput published earlier; the decision the
\* bridge returns carries an id the bridge allocated, which no RiskOutput has.
C7_StreamDecisionHasRiskOutput ==
    decisionOut # NoDecision =>
        /\ decisionOut.via = "stream" => decisionOut.incident_id \in riskPublished
        /\ decisionOut.via = "bridge" => decisionOut.incident_id \notin riskPublished

\* the streaming agent published a decision of a rule for a published incident
C7_Witness ==
    /\ decisionOut # NoDecision
    /\ decisionOut.via = "stream" /\ decisionOut.rule_id # NoRule
    /\ decisionOut.incident_id \in riskPublished

\* C8: with the cooldown store unreachable, every risk input that matches a
\* rule yields a fired decision: no rule evaluation is lost to the store.
C8_UnreachableStoreStillFires == failures = {}

\* C9: when the matching rule's cooldown key exists, the decision is
\* suppressed with a reason, names the rule, lists no action, and the action
\* log, the alert rows, the cooldown keys and their expiry stay as they were.
C9_SuppressedDecisionHasNoEffect ==
    [][\A e \in Evaluators :
          (/\ pc[e] = "check" /\ pc'[e] # "check"
           /\ cooldown[<<cur[e].truck, RULES[cur[e].rule].id>>] > now)
          => /\ decisionOut'.via = e
             /\ decisionOut'.incident_id = cur[e].input.incident_id
             /\ decisionOut'.alert_suppressed
             /\ decisionOut'.suppression_reason # "null"
             /\ decisionOut'.rule_id = RULES[cur[e].rule].id
             /\ decisionOut'.actions_taken = <<>>
             /\ actionLog' = actionLog
             /\ alerts' = alerts
             /\ fired' = fired
             /\ cooldown' = cooldown
       ]_vars

\* 300 s after R002 fired for the truck, a second R002 decision was suppressed
\* and the key still carries its first expiry
C9_Witness ==
    /\ decisionOut # NoDecision
    /\ decisionOut.alert_suppressed /\ decisionOut.rule_id = "R002"
    /\ decisionOut.timestamp = 300
    /\ cooldown[<<decisionOut.truck, "R002">>] = 600
    /\ now = 300

(***************************************************************************)
(* Properties of the signal buffer                                         *)
(***************************************************************************)
\* C11: a truck's buffer holds at most one entry per input channel: a received
\* signal replaces the entry (payload and receive time) of its channel and
\* leaves the other channels of the truck and all other trucks as they were.
C11_OneEntryPerChannel ==
    [][nextSig' # nextSig =>
          LET t == event'.truck
              ch == event'.channel
          IN /\ \A u \in Trucks : DOMAIN signal_buffer'[u] \subseteq Channels
             /\ \A u \in Trucks \ {t} : signal_buffer'[u] = signal_buffer[u]
             /\ ~event'.fired =>
                   /\ DOMAIN signal_buffer'[t] = DOMAIN signal_buffer[t] \cup {ch}
                   /\ signal_buffer'[t][ch].score = event'.score
                   /\ signal_buffer'[t][ch].received_at = now
                   /\ \A c \in DOMAIN signal_buffer[t] \ {ch} :
                         signal_buffer'[t][c] = signal_buffer[t][c]
       ]_vars

\* four signals were received and none fused: the behaviour entry of TRK1 was
\* replaced at second 101 by a payload with another score, its twin entry of
\* second 0 and the entry of TRK2 are as they were
C11_Witness ==
    /\ nextSig = 4 /\ nextIncident = 0
    /\ event.op = "recv" /\ event.truck = "TRK1" /\ event.channel = "behaviour"
    /\ DOMAIN signal_buffer["TRK1"] = {"behaviour", "twin"}
    /\ signal_buffer["TRK1"]["behaviour"].score = 600
    /\ signal_buffer["TRK1"]["behaviour"].received_at = 101
    /\ signal_buffer["TRK1"]["twin"].received_at = 0
    /\ DOMAIN signal_buffer["TRK2"] = {"route"}
    /\ signal_buffer["TRK2"]["route"].score = 900

\* the receive time of the newest entry of a buffer
LastReceived(buf) ==
    CHOOSE t \in {buf[c].received_at : c \in DOMAIN buf} :
        \A c \in DOMAIN buf : buf[c].received_at <= t

\* the run loop has handled a message in the current second
HandledNow ==
    /\ event.op = "recv"
    /\ IF event.fired THEN lastRisk.timestamp = now
       ELSE signal_buffer[event.truck][event.channel].received_at = now

\* C12: a buffer that received no signal for 100 s (ten staleness windows) is
\* evicted: once the run loop has handled a message, no truck that has been
\* idle for more than 100 s has a buffer entry left.
C12_IdleBufferEvicted ==
    HandledNow =>
        \A u \in Trucks :
            signal_buffer[u] # EmptyBuffer =>
                now - LastReceived(signal_buffer[u]) <= 10 * signal_staleness_s

(***************************************************************************)
(* Properties of the cooldown keys                                         *)
(***************************************************************************)
\* the key alert_cooldown:{truck}:{rule} of the evaluation of e
KeyOf(e) == <<cur[e].truck, RULES[cur[e].rule].id>>

\* C13: a decision for truck t matching rule r is suppressed exactly when the
\* key of (t, r) exists, whatever other keys exist; firing sets only that key,
\* for r's cooldown_s seconds, and no key lives longer than its rule's
\* cooldown_s, so the first matching input after the expiry fires again.
C13_CooldownScoped ==
    [][/\ \A e \in Evaluators :
            /\ (pc[e] = "check" /\ pc'[e] # "check") =>
                  IF cooldown[KeyOf(e)] > now
                  THEN pc'[e] = "idle" /\ decisionOut'.alert_suppressed
                  ELSE pc'[e] = "set"
            /\ (pc[e] = "set" /\ pc'[e] = "act") =>
                  /\ cooldown'[KeyOf(e)] = now + ClaimedCooldown(KeyOf(e)[2])
                  /\ \A k \in DOMAIN cooldown \ {KeyOf(e)} : cooldown'[k] = cooldown[k]
       /\ \A k \in DOMAIN cooldown :
            cooldown'[k] > now' => cooldown'[k] - now' <= ClaimedCooldown(k[2])
      ]_vars

\* R001 fired for TRK1 at second 0 and, its key having expired at second 300,
\* the next matching input, at second 300, fired again and set the key anew
C13_Witness ==
    /\ fired[<<"TRK1", "R001">>] = <<0, 300>>
    /\ decisionOut # NoDecision
    /\ decisionOut.truck = "TRK1" /\ decisionOut.rule_id = "R001"
    /\ ~decisionOut.alert_suppressed /\ decisionOut.timestamp = 300
    /\ cooldown[<<"TRK1", "R001">>] = 600

(***************************************************************************)
(* Properties of the risk classification                                   *)
(***************************************************************************)
\* C14: every RiskOutput on risk.output with a composite score of exactly 0.45
\* is MEDIUM, of exactly 0.65 is HIGH, of exactly 0.85 is CRITICAL, and every
\* one with a score below 0.45 is LOW.
C14_InclusiveLowerBounds ==
    \A i \in 1..Len(riskTopic) :
        LET s == riskTopic[i].composite_risk_score
            l == riskTopic[i].risk_level
        IN /\ s = 450 => l = "MEDIUM"
           /\ s = 650 => l = "HIGH"
           /\ s = 850 => l = "CRITICAL"
           /\ s < 450 => l = "LOW"

\* a RiskOutput with composite score exactly 0.65 is on the bus, classified HIGH
C14_Witness ==
    /\ riskTopic # <<>>
    /\ riskTopic[1].composite_risk_score = 650
    /\ riskTopic[1].risk_level = "HIGH"

(***************************************************************************)
(* Properties of the BehaviourAgent                                        *)
(***************************************************************************)
\* the raw model scores of the batch handled last
RawScoresOf(msg) == {msg.tracks[i].raw : i \in 1..Len(msg.tracks)}

\* C15: with learned-model scoring, the largest normalised per-track score of
\* a Behaviour output is 1 exactly when the batch holds at least two distinct
\* raw model scores.
C15_BatchNormalised ==
    (behaviourOut # NoBehaviour /\ perception.learned) =>
        (SeqMax0(behaviourOut.raw_scores) = 1000
            <=> Cardinality(RawScoresOf(perception)) >= 2)

\* the score the agent computes for the track at position i of the batch
\* handled last
OwnScore(i) == TrackScore(perception.tracks[i], perception.hour, perception.learned)

\* some track of the batch handled last dwells for more than 30 s and its own
\* score exceeds 0.6
SomeTrackDwellsAndIsFlagged ==
    \E i \in 1..Len(perception.tracks) :
        /\ perception.tracks[i].dwell_seconds > loitering_threshold_s
        /\ OwnScore(i) > anomaly_threshold

\* the track ids of the batch handled last are pairwise distinct
DistinctTrackIds == Cardinality(TrackIds(perception.tracks)) = Len(perception.tracks)

FusedFromOutputs ==
    /\ lastRisk # NoRisk
    /\ behaviourOut # NoBehaviour /\ twinOut # NoTwin /\ routeOut # NoRoute
    /\ lastRisk.component_scores =
          [behaviour |-> behaviourOut.anomaly_score, twin |-> twinOut.deviation_score,
           route |-> routeOut.route_risk_score, temporal |-> GetTemporalScore(clock_hour)]

\* the night scenario went through the agents, with the default baseline,
\* the default geometry and heuristic behaviour scoring, at hour 02
NightScenarioFused ==
    /\ clock_hour = 2
    /\ twinOut = TwinOutput(NightTelemetry, DefaultBaseline)
    /\ routeOut = RouteOutput(PipelineTruck, NightTelemetry.gps, 2)
    /\ behaviourOut = BehaviourOutput(PipelineTruck, <<NightTrack>>, 2, FALSE)
    /\ FusedFromOutputs

\* the decision returned last answers the RiskOutput produced last
DecidedLastRisk ==
    /\ decisionOut # NoDecision
    /\ decisionOut.truck = lastRisk.truck
    /\ decisionOut.risk_score = lastRisk.composite_risk_score

\* number of decisions fired for the truck, whatever the rule
FiredCount(truck) ==
    Len(fired[<<truck, "R001">>]) + Len(fired[<<truck, "R002">>])
        + Len(fired[<<truck, "R003">>])

\* C16: for the night scenario the fused composite is at least 0.85 and the
\* level CRITICAL; the decision for it names R001 and, when it fires, takes
\* sms, email and log_incident; no second decision fires within 300 s.
C16_NightScenarioCritical ==
    NightScenarioFused =>
        /\ lastRisk.composite_risk_score >= 850
        /\ lastRisk.risk_level = "CRITICAL"
        /\ DecidedLastRisk =>
              /\ decisionOut.rule_id = "R001"
              /\ ~decisionOut.alert_suppressed =>
                    decisionOut.actions_taken = <<"sms", "email", "log_incident">>
              /\ FiredCount(PipelineTruck) <= 1

\* the risk-zone scenario went through the agents at hour 13: no track, the
\* truck on its planned centre inside the Tughlakabad zone, inside a corridor
ZoneScenarioFused ==
    /\ clock_hour = 13
    /\ twinOut = TwinOutput(ZoneTelemetry, ZoneBaseline)
    /\ routeOut = RouteOutput(PipelineTruck, GpsZone, 13)
    /\ behaviourOut = BehaviourOutput(PipelineTruck, <<>>, 13, FALSE)
    /\ behaviourOut.anomaly_score = 0 /\ twinOut.deviation_score = 0
    /\ routeOut.in_safe_corridor
    /\ FusedFromOutputs

\* C17: for a truck inside a named risk zone at hour 13, all else nominal,
\* the route output has in_high_risk_zone and route risk 0.3, the composite
\* lies in [0.45, 0.65), and the decision fires R003 with log_incident only.
C17_RiskZoneScenarioMedium ==
    /\ (routeOut # NoRoute /\ routeOut.gps = GpsZone /\ routeOut.in_safe_corridor
            /\ clock_hour = 13)
          => (routeOut.in_high_risk_zone /\ routeOut.route_risk_score = 300)
    /\ ZoneScenarioFused =>
          /\ 450 <= lastRisk.composite_risk_score
          /\ lastRisk.composite_risk_score < 650
          /\ DecidedLastRisk =>
                /\ decisionOut.rule_id = "R003"
                /\ ~decisionOut.alert_suppressed
                /\ decisionOut.actions_taken = <<"log_incident">>

(***************************************************************************)
(* Properties of the ExplainabilityAgent                                   *)
(***************************************************************************)
\* C18: whatever RiskOutputs the agent has processed, its risk cache holds at
\* most 100 entries.
C18_RiskCacheBounded == Len(risk_cache) <= risk_cache_limit

\* the 101st RiskOutput was cached and the ten oldest entries were dropped
C18_Witness ==
    /\ explainRunning
    /\ riskSent = risk_cache_limit + 1
    /\ Len(risk_cache) = risk_cache_limit + 1 - risk_cache_trim
    /\ risk_cache[1].incident_id = risk_cache_trim + 1

\* C20: every ExplanationOutput answers a DecisionOutput whose rule_id is not
\* null, and its risk level, confidence and text carry the values of the
\* RiskOutput published under the same incident id, never the defaults of an
\* absent or empty RiskOutput.
C20_ExplanationFromCachedRisk ==
    explainOut # NoExplanation =>
        LET risk == RiskMessage(explainOut.incident_id)
        IN /\ explainOut.incident_id \in 1..decisionSent
           /\ MatchRule(risk.composite_risk_score) # 0
           /\ explainOut.risk_level = risk.risk_level
           /\ explainOut.confidence_noted = risk.confidence
           /\ explainOut.explanation_text.score = risk.composite_risk_score

BayesianFellBack ==
    /\ bn_model
    /\ lastRisk' # lastRisk
    /\ lastRisk'.via = "stream"
    /\ lastRisk'.fusion_method = "weighted_fallback"

\* C29: when the Bayesian model is present and inference fails, the RiskOutput
\* of that fusion carries the composite score and the confidence the weighted
\* path computes from the same buffered signals and the same signal ages.
C29_FallbackEqualsWeighted ==
    [][BayesianFellBack =>
         LET buf == StoreSignal(signal_buffer[event'.truck], event'.channel,
                                event'.score, now)
             scores == [c \in Channels |-> buf[c].score]
             ages == [c \in Channels |-> now - buf[c].received_at]
         IN \E hp \in HourPairs :
               LET weighted == WeightedFusion(scores, ages, GetTemporalScore(hp[1]))
               IN /\ lastRisk'.composite_risk_score = weighted.score
                  /\ lastRisk'.confidence = weighted.confidence]_vars

\* the RiskOutput of a bridge request with the scores 0.9, 0.85 and 0.8
HighSignalsFused ==
    /\ lastRisk # NoRisk
    /\ lastRisk.via = "bridge"
    /\ lastRisk.component_scores.behaviour = 900
    /\ lastRisk.component_scores.twin = 850
    /\ lastRisk.component_scores.route = 800

\* C27: behaviour 0.9, twin 0.85 and route 0.8 fused through the
\* /agents/risk-fusion bridge give level CRITICAL, whatever the hour.
C27_HighSignalsCritical == HighSignalsFused => lastRisk.risk_level = "CRITICAL"

(***************************************************************************)
(* Properties of the risk cache eviction                                   *)
(***************************************************************************)
\* incident ids held by a cache
CacheIds(cache) == {cache[i].incident_id : i \in 1..Len(cache)}

\* the step cached a RiskOutput in a cache that held risk_cache_limit entries
InsertedIntoFullCache ==
    /\ riskSent' = riskSent + 1
    /\ explainRunning
    /\ Len(risk_cache) = risk_cache_limit

\* C28: an insertion into the full cache evicts exactly one entry, never the
\* entry just inserted, and never the entry looked up for the last
\* explanation while an entry cached and looked up before it remains.
C28_EvictionIsLRU ==
    [][InsertedIntoFullCache =>
         /\ Cardinality(CacheIds(risk_cache) \ CacheIds(risk_cache')) = 1
         /\ riskSent' \in CacheIds(risk_cache')
         /\ (/\ explainOut # NoExplanation
             /\ explainOut.incident_id \in CacheIds(risk_cache) \ CacheIds(risk_cache'))
            => \A id \in CacheIds(risk_cache') : id > explainOut.incident_id]_vars

(***************************************************************************)
(* Properties of the DecisionAgent's input validation                      *)
(***************************************************************************)
\* C23: a risk message of the bus whose composite score lies outside [0,1] is
\* dropped by the DecisionAgent: its evaluation goes no further than the
\* parsing (no cooldown key is checked or set, no action executed) and no
\* DecisionOutput is published for it.
C23_OutOfRangeDropped ==
    /\ pc["stream"] # "idle" => InUnit(cur["stream"].input.composite_risk_score)
    /\ (decisionOut # NoDecision /\ decisionOut.via = "stream")
          => InUnit(decisionOut.risk_score)

(***************************************************************************)
(* Properties of the summarizer fallback                                   *)
(***************************************************************************)
\* the step handled a DecisionOutput whose summarizer call failed
SummarizerCallFailed == llm_call' # llm_call /\ llm_call'.failed

\* C21: when the call of the configured summarizer fails for a DecisionOutput
\* with a rule, an ExplanationOutput is still produced for that incident; its
\* text is the template text and its summarizer id is rule_based_template.
C21_TemplateOnFailure ==
    [][SummarizerCallFailed =>
         \E suppressed \in BOOLEAN :
            LET decision == DecisionMessage(RiskMessage(decisionSent + 1), suppressed)
                risk_payload == CacheGet(risk_cache, decision.incident_id)
            IN /\ decision.rule_id # NoRule
               /\ explainOut' # explainOut
               /\ explainOut'.incident_id = decision.incident_id
               /\ explainOut'.explanation_text
                     = TemplateExplanation(decision, risk_payload)
               /\ explainOut'.llm_model_used = "rule_based_template"]_vars

\* a remote summarizer is configured, its call for a decision with a rule
\* failed, and the explanation of that incident is the template one
C21_Witness ==
    /\ llm_provider \in {"openai", "ollama"}
    /\ llm_call.failed
    /\ explainOut # NoExplanation
    /\ explainOut.incident_id = llm_call.incident_id
    /\ explainOut.llm_model_used = "rule_based_template"

\* C25: the template explanation of a configured summarizer is used only
\* after its call has failed three times, never after a single failure.
C25_TemplateAfterThreeFailures ==
    (llm_call.failed /\ explainOut # NoExplanation
        /\ explainOut.incident_id = llm_call.incident_id
        /\ explainOut.llm_model_used = "rule_based_template")
      => llm_call.calls = 3

(***************************************************************************)
(* Properties of the bridge views' request validation                      *)
(***************************************************************************)
\* composite_risk_score values that are no number in [0,1]: a number (given
\* as such or as numeric text) outside the range, or a value of another type
BadScores ==
    {score \in ScoreValues :
        \/ score.kind \in {"text", "true", "null"}
        \/ score.kind \in {"number", "numeric_text"} /\ score.value \notin 0..1000}

\* every processor, the bus, the alert rows and the trip are as before
NoSideEffect ==
    UNCHANGED <<fusionVars, decisionVars, behaviourVars, pipelineVars, explainVars,
                incidentVars, summarizerVars, ai_explanation, framesPublished,
                loopVars, lateVars>>

\* C22: a POST to /agents/decision (for the stored trip) whose
\* composite_risk_score is outside [0,1] or is not a number returns 400 and
\* has no side effect: no rule is evaluated, no cooldown key is read or set,
\* no incident is logged, no alert is created, the trip is unchanged.
C22_BadScoreRejected ==
    [][\A score \in BadScores :
          DecisionPost("stored", score) => (httpRejected' = 400 /\ NoSideEffect)]_vars

\* a POST of an otherwise valid body to one of the seven bridge endpoints
ValidBodyPost(trip_id) ==
    \/ PerceptionPost(trip_id, "none")
    \/ BehaviourPost(trip_id, "none")
    \/ TwinPost(trip_id)
    \/ RoutePost(trip_id)
    \/ FusionPost(trip_id)
    \/ DecisionPost(trip_id, [kind |-> "number", value |-> 900])
    \/ ExplainPost(trip_id)

\* C24: on every POST bridge endpoint a request without trip_id returns 400
\* and a request whose trip_id matches no stored trip returns 404; in both
\* cases no processor is invoked, nothing is published and no alert or trip
\* record is created or changed.
C24_BadTripRejected ==
    [][\A trip_id \in TripIds \ {"stored"} :
          ValidBodyPost(trip_id) =>
             /\ httpRejected' = (IF trip_id = "missing" THEN 400 ELSE 404)
             /\ NoSideEffect]_vars

(***************************************************************************)
(* Properties of stop                                                      *)
(***************************************************************************)
\* once stop was requested the run loop is eventually left
LoopEventuallyExits == (~running) ~> (loopPc # "looping")

\* the output of the message run was handling at stop has been published
\* when run is over
InFlightPublished ==
    [](loopPc # "looping" /\ inflight_at_stop # 0 =>
          /\ decisionOut # NoDecision
          /\ decisionOut.via = "stream"
          /\ decisionOut.incident_id = inflight_at_stop)

\* run does not end by raising out of its finally block
UnsubscribeQuiet == [](loopPc # "raised")

\* C26: after stop is requested on a running processor its run loop
\* eventually exits; before exiting it finishes the message it was processing
\* (the output for that message is published), and it closes its
\* subscription without raising.
C26_StopDrainsAndExits ==
    /\ LoopEventuallyExits
    /\ InFlightPublished
    /\ UnsubscribeQuiet

(***************************************************************************)
(* Properties of the decision bridge's durable effects                     *)
(***************************************************************************)
\* the step ends a bridge request: its decision is returned
BridgeAnswered == decisionOut' # decisionOut /\ decisionOut'.via = "bridge"

\* C31: a /agents/decision request creates exactly one alert record if the
\* decision has a rule and is not suppressed, and none otherwise; it sets the
\* trip to Alert only when R001 or R002 fired unsuppressed and the trip was
\* neither Alert nor Completed, and leaves the trip unchanged otherwise.
C31_BridgeAlertAndTrip ==
    [][BridgeAnswered =>
         LET out == decisionOut'
             fires == out.rule_id # NoRule /\ ~out.alert_suppressed
             escalates == /\ fires
                          /\ out.rule_id \in {"R001", "R002"}
                          /\ trip_status \notin {"Alert", "Completed"}
         IN /\ alerts \subseteq alerts'
            /\ Cardinality(alerts') = Cardinality(alerts) + (IF fires THEN 1 ELSE 0)
            /\ trip_status' = (IF escalates THEN "Alert" ELSE trip_status)]_vars

\* a request fired R001 and was followed by a suppressed one: one alert row,
\* the trip in Alert
C31_Witness ==
    /\ decisionOut # NoDecision
    /\ decisionOut.via = "bridge"
    /\ decisionOut.alert_suppressed
    /\ Cardinality(alerts) = 1
    /\ trip_status = "Alert"

(***************************************************************************)
(* Properties of a failed emission                                         *)
(***************************************************************************)
\* the step handled a signal whose emission raised
EmissionFailed == nextSig' # nextSig /\ event'.op \in EmissionCommands

\* C32: fusion emission is all-or-nothing: when the publish or the write of
\* risk_score:{truck} fails, either no RiskOutput was published and the
\* truck's buffer holds its signals as before, or the RiskOutput was published
\* and the buffer is cleared; so no buffered signal goes into two RiskOutputs
\* with different incident ids.
C32_EmissionAllOrNothing ==
    /\ [][EmissionFailed =>
            LET t == event'.truck
                held == StoreSignal(signal_buffer[t], event'.channel, event'.score, now)
            IN \/ /\ riskPublished' = riskPublished
                  /\ lastRisk' = lastRisk
                  /\ signal_buffer'[t] = held
               \/ /\ riskPublished' # riskPublished
                  /\ signal_buffer'[t] = EmptyBuffer]_vars
    /\ [](lastRisk # NoRisk => ~lastRisk.reused)

(***************************************************************************)
(* Properties of the cooldown under failures                               *)
(***************************************************************************)
\* C33: whenever a rule evaluation has set the cooldown key of (truck, rule),
\* an unsuppressed DecisionOutput for that rule is returned or published; a
\* failure while executing actions never leaves a cooldown set for an alert
\* that was not emitted.  (An evaluation still executing its actions is
\* about to emit.)
C33_CooldownMeansEmitted ==
    \A k \in DOMAIN cooldown :
        cooldown[k] # 0 =>
            \/ fired[k] # <<>>
            \/ \E e \in Evaluators :
                  pc[e] = "act" /\ cur[e].truck = k[1] /\ RULES[cur[e].rule].id = k[2]

(***************************************************************************)
(* Properties relating rule, level and threshold tag                       *)
(***************************************************************************)
\* the risk level that goes with a rule id
LevelOfRule(rule_id) ==
    CASE rule_id = "R001" -> "CRITICAL"
      [] rule_id = "R002" -> "HIGH"
      [] rule_id = "R003" -> "MEDIUM"
      [] OTHER -> "LOW"

\* C34: in every DecisionOutput, streamed or returned by the bridge, the rule
\* and the risk level agree (R001 CRITICAL, R002 HIGH, R003 MEDIUM, no rule
\* LOW); in every RiskOutput CRITICAL_THRESHOLD_BREACH is among the triggered
\* rules if and only if the level is CRITICAL.
C34_RuleAgreesWithLevel ==
    /\ decisionOut # NoDecision =>
          decisionOut.risk_level = LevelOfRule(decisionOut.rule_id)
    /\ lastRisk # NoRisk =>
          (lastRisk.critical_breach <=> lastRisk.risk_level = "CRITICAL")

\* C35: once the trip is Completed, no request to an /agents/ endpoint changes
\* its status
C35_CompletedStays == [][trip_status = "Completed" => trip_status' = "Completed"]_vars

\* the twin output message carries a truck id, a timestamp and GPS coordinates
Carries(msg) == msg.truck # NoTruck /\ msg.has_gps /\ msg.has_timestamp

\* C36: every twin output message with a truck id, a timestamp and GPS
\* coordinates that the route processor handled was answered by exactly one
\* route output for its truck, latitude 0 and longitude 0 included
C36_OneRouteOutputPerMessage ==
    \A i \in 1..route_handled :
        Carries(twin_topic[i]) =>
            Cardinality({j \in DOMAIN route_published :
                            /\ route_published[j].src = i
                            /\ route_published[j].truck = twin_topic[i].truck}) = 1

\* C37: the ExplanationOutputs are published in the order in which their
\* DecisionOutputs were received (incident ids count the receptions)
C37_PublishedInReceiveOrder ==
    \A i, j \in DOMAIN explain_published :
        i < j => explain_published[i].incident_id < explain_published[j].incident_id

\* C38: once _get_baseline has returned a baseline for a truck, every later
\* call for that truck returns the same baseline and does not read the store
C38_BaselineStable ==
    \A i, j \in DOMAIN baseline_log :
        (i < j /\ baseline_log[i].truck = baseline_log[j].truck) =>
            /\ baseline_log[j].baseline = baseline_log[i].baseline
            /\ ~baseline_log[j].store_read

\* a truck was served twice, the second time after the store had come to hold
\* another baseline than the one returned
C38_Witness ==
    \E i, j \in DOMAIN baseline_log :
        /\ i < j /\ baseline_log[i].truck = baseline_log[j].truck
        /\ twin_store[baseline_log[j].truck] # NoBaseline
        /\ twin_store[baseline_log[j].truck] # baseline_log[j].baseline
        /\ store_gets > 0

====
